---- MODULE Spec2Model ----
(***************************************************************************)
(* A model of the comment-classification engine of yt-comments-extractor   *)
(* (src/spam_filter.py): text normalisation, the compiled pattern          *)
(* registry, SpamDetector.analyze and its callers.                         *)
(*                                                                         *)
(* Text is a sequence of characters; a character is a string: an ASCII     *)
(* character stands for itself, any other code point is written "U+XXXX".  *)
(* Regular expressions are kept as syntax trees, transcribed from the      *)
(* source patterns, and matched by a backtracking matcher that returns the *)
(* possible match ends in the order Python's re module tries them.         *)
(*                                                                         *)
(* Real numbers (weights, bonuses, scores, thresholds) are fixed-point     *)
(* integers in units of 1/Scale; every weight of the source (a multiple of *)
(* 0.01) halved up to 16 times is exact in this unit.  Floating-point      *)
(* rounding error of the source's arithmetic is not modelled.              *)
(***************************************************************************)
EXTENDS Integers, Sequences, FiniteSets, TLC

\* ------------------------------------------------------------------------
\* Characters
\* ------------------------------------------------------------------------

Chars(s) == [i \in 1..Len(s) |-> SubSeq(s, i, i)]

\* The concatenation of the sequences of ss, by halves.
RECURSIVE Flatten(_)
Flatten(ss) ==
  IF ss = <<>> THEN <<>>
  ELSE IF Len(ss) = 1 THEN ss[1]
  ELSE Flatten(SubSeq(ss, 1, Len(ss) \div 2))
         \o Flatten(SubSeq(ss, Len(ss) \div 2 + 1, Len(ss)))

Range(f) == {f[i] : i \in DOMAIN f}

LowerLetters == Chars("abcdefghijklmnopqrstuvwxyz")
UpperLetters == Chars("ABCDEFGHIJKLMNOPQRSTUVWXYZ")
Digits == Range(Chars("0123456789"))
AsciiLetters == Range(LowerLetters) \cup Range(UpperLetters)

\* str.lower() / re.IGNORECASE folding on the ASCII letters; the Cyrillic
\* capitals of the homoglyph table fold to their small letters.
CyrillicLower ==
  [c \in {"U+0410", "U+0412", "U+0421", "U+0415", "U+041D", "U+041A", "U+041C",
          "U+041E", "U+0420", "U+0422", "U+0425", "U+0423", "U+0406"} |->
     CASE c = "U+0410" -> "U+0430" [] c = "U+0412" -> "U+0432"
       [] c = "U+0421" -> "U+0441" [] c = "U+0415" -> "U+0435"
       [] c = "U+041D" -> "U+043D" [] c = "U+041A" -> "U+043A"
       [] c = "U+041C" -> "U+043C" [] c = "U+041E" -> "U+043E"
       [] c = "U+0420" -> "U+0440" [] c = "U+0422" -> "U+0442"
       [] c = "U+0425" -> "U+0445" [] c = "U+0423" -> "U+0443"
       [] c = "U+0406" -> "U+0456"]

AsciiLower == [c \in Range(UpperLetters) |->
                 LowerLetters[CHOOSE i \in 1..26 : UpperLetters[i] = c]]

Lower(c) == IF c \in DOMAIN AsciiLower THEN AsciiLower[c]
            ELSE IF c \in DOMAIN CyrillicLower THEN CyrillicLower[c]
            ELSE c

LowerText(t) == [i \in 1..Len(t) |-> Lower(t[i])]

\* str.isspace(), the whitespace of str.strip()/str.split() and \s of re.
Whitespace == {" ", "\t", "\n", "U+00A0"}

\* Cyrillic to Latin homoglyph mapping (visually identical characters).
CYRILLIC_TO_LATIN ==
  [c \in {"U+0430", "U+0441", "U+0435", "U+043E", "U+0440", "U+0445", "U+0443",
          "U+0456", "U+0458", "U+0455", "U+04BB", "U+0501", "U+051B", "U+051D",
          "U+1D26",
          "U+0410", "U+0412", "U+0421", "U+0415", "U+041D", "U+041A", "U+041C",
          "U+041E", "U+0420", "U+0422", "U+0425", "U+0423", "U+0406",
          "U+03B1", "U+03BF", "U+03C1", "U+03C4", "U+03C5", "U+03BD", "U+03C9",
          "U+03C7"} |->
     CASE c = "U+0430" -> "a" [] c = "U+0441" -> "c" [] c = "U+0435" -> "e"
       [] c = "U+043E" -> "o" [] c = "U+0440" -> "p" [] c = "U+0445" -> "x"
       [] c = "U+0443" -> "y" [] c = "U+0456" -> "i" [] c = "U+0458" -> "j"
       [] c = "U+0455" -> "s" [] c = "U+04BB" -> "h" [] c = "U+0501" -> "d"
       [] c = "U+051B" -> "q" [] c = "U+051D" -> "w" [] c = "U+1D26" -> "r"
       [] c = "U+0410" -> "A" [] c = "U+0412" -> "B" [] c = "U+0421" -> "C"
       [] c = "U+0415" -> "E" [] c = "U+041D" -> "H" [] c = "U+041A" -> "K"
       [] c = "U+041C" -> "M" [] c = "U+041E" -> "O" [] c = "U+0420" -> "P"
       [] c = "U+0422" -> "T" [] c = "U+0425" -> "X" [] c = "U+0423" -> "Y"
       [] c = "U+0406" -> "I"
       [] c = "U+03B1" -> "a" [] c = "U+03BF" -> "o" [] c = "U+03C1" -> "p"
       [] c = "U+03C4" -> "t" [] c = "U+03C5" -> "u" [] c = "U+03BD" -> "v"
       [] c = "U+03C9" -> "w" [] c = "U+03C7" -> "x"]

\* Leetspeak / character substitution mapping.
LEETSPEAK_MAP ==
  [c \in {"@", "4", "^", "8", "(", "<", "{", "3", "U+20AC", "6", "9", "#", "1",
          "!", "|", "0", "U+00F8", "$", "5", "7", "+", "U+00B5", "2"} |->
     CASE c \in {"@", "4", "^"} -> "a"
       [] c = "8" -> "b"
       [] c \in {"(", "<", "{"} -> "c"
       [] c \in {"3", "U+20AC"} -> "e"
       [] c \in {"6", "9"} -> "g"
       [] c = "#" -> "h"
       [] c \in {"1", "!", "|"} -> "i"
       [] c \in {"0", "U+00F8"} -> "o"
       [] c \in {"$", "5"} -> "s"
       [] c \in {"7", "+"} -> "t"
       [] c = "U+00B5" -> "u"
       [] c = "2" -> "z"]

\* Zero-width and invisible characters to remove.
ZERO_WIDTH_CHARS ==
  {"U+200B", "U+200C", "U+200D", "U+2060", "U+FEFF", "U+00AD", "U+034F",
   "U+2061", "U+2062", "U+2063", "U+2064"}

\* Fake verification badge characters.
FAKE_BADGE_CHARS ==
  {"U+2713", "U+2714", "U+2705", "U+2611", "U+1F535", "U+26AA", "U+1F518",
   "U+1F537", "U+1F48E", "U+2B50"}

\* Letters outside ASCII that the model's texts may hold: the homoglyph
\* table, the small Cyrillic letters its capitals fold to, and the letters
\* of NfkdTable.
OtherLetters ==
  DOMAIN CYRILLIC_TO_LATIN
    \cup {"U+0432", "U+043D", "U+043A", "U+043C", "U+0442"}
    \cup {"U+00E9", "U+FB01", "U+00F8", "U+00B5", "U+03BC", "U+1D6C2"}

\* str.isalnum(): letters and digits of any script.
IsAlnum(c) == c \in AsciiLetters \/ c \in Digits \/ c \in OtherLetters

\* unicodedata.combining(c) # 0 for the combining marks the model holds.
CombiningMarks == {"U+0301"}

\* \w of re (Unicode): alphanumerics, the underscore, and combining marks
\* are not word characters.
IsWord(c) == IsAlnum(c) \/ c = "_"

\* unicodedata.normalize('NFKD', c) of the characters the model holds that
\* have a decomposition: e-acute, the fi ligature, the micro sign, the
\* mathematical bold small alpha and the no-break space; every other
\* character is its own NFKD.
NfkdTable ==
  [c \in {"U+00E9", "U+FB01", "U+00B5", "U+1D6C2", "U+00A0"} |->
     CASE c = "U+00E9" -> <<"e", "U+0301">>
       [] c = "U+00A0" -> <<" ">>
       [] c = "U+FB01" -> <<"f", "i">>
       [] c = "U+00B5" -> <<"U+03BC">>
       [] c = "U+1D6C2" -> <<"U+03B1">>]

Nfkd(c) == IF c \in DOMAIN NfkdTable THEN NfkdTable[c] ELSE <<c>>

\* ------------------------------------------------------------------------
\* Regular expressions (Python's re): syntax trees and a backtracking matcher
\* ------------------------------------------------------------------------

Lit(s) == [k |-> "lit", s |-> Chars(s)]           \* a literal string
Chr(c) == [k |-> "lit", s |-> <<c>>]              \* one named character
OneOf(S) == [k |-> "set", in |-> S, neg |-> FALSE]   \* [...]
NoneOf(S) == [k |-> "set", in |-> S, neg |-> TRUE]   \* [^...]
Digit == [k |-> "digit"]                          \* \d
Space == [k |-> "space"]                          \* \s
NonSpace == [k |-> "nonspace"]                    \* \S, [^\s]
AnyChar == [k |-> "any"]                          \* .
WordB == [k |-> "wordb"]                          \* \b
Bol == [k |-> "bol"]                              \* ^
Eol == [k |-> "eol"]                              \* $
Cat(rs) == [k |-> "cat", rs |-> rs]
Alt(rs) == [k |-> "alt", rs |-> rs]
\* r{lo,hi}; hi = -1 is unbounded; lazy is the ? suffix of a quantifier.
Rep(r, lo, hi) == [k |-> "rep", r |-> r, lo |-> lo, hi |-> hi, lazy |-> FALSE]
Opt(r) == Rep(r, 0, 1)
Star(r) == Rep(r, 0, -1)
Plus(r) == Rep(r, 1, -1)
LazyStar(r) == [k |-> "rep", r |-> r, lo |-> 0, hi |-> -1, lazy |-> TRUE]
Sp == Star(Space)                                 \* \s*
\* An alternation of literal strings: (a|b|c).
Words(ws) == Alt([i \in 1..Len(ws) |-> Lit(ws[i])])

\* The subject of a match: the text, and the text the literals are compared
\* with (lower-cased under re.IGNORECASE).
Subject(t, ic) == [t |-> t, f |-> IF ic THEN LowerText(t) ELSE t, ic |-> ic]

AtWordB(t, i) ==
  LET before == i > 1 /\ IsWord(t[i - 1])
      after == i <= Len(t) /\ IsWord(t[i])
  IN before # after

\* Ends(r, c, i): the positions at which a match of r that starts at
\* position i of subject c can end, in the order the backtracking matcher
\* tries them.  Position i is the gap before character i.
RECURSIVE Ends(_, _, _)
RECURSIVE CatEnds(_, _, _, _)
RECURSIVE RepEnds(_, _, _, _, _)

CatEnds(rs, n, c, i) ==
  IF n > Len(rs) THEN <<i>>
  ELSE LET firsts == Ends(rs[n], c, i)
       IN Flatten([x \in 1..Len(firsts) |-> CatEnds(rs, n + 1, c, firsts[x])])

RepEnds(r, lo, hi, c, i) ==
  LET once == IF hi = 0 THEN <<>>
              ELSE SelectSeq(Ends(r.r, c, i), LAMBDA j : j > i \/ lo > 0)
      more == Flatten([x \in 1..Len(once) |->
                IF once[x] = i THEN <<i>>
                ELSE RepEnds(r, IF lo > 0 THEN lo - 1 ELSE 0,
                             IF hi > 0 THEN hi - 1 ELSE hi, c, once[x])])
      stop == IF lo = 0 THEN <<i>> ELSE <<>>
  IN IF r.lazy THEN stop \o more ELSE more \o stop

Ends(r, c, i) ==
  CASE r.k = "lit" ->
         LET n == Len(r.s)
         IN IF i + n - 1 <= Len(c.t) /\ SubSeq(c.f, i, i + n - 1) = r.s
            THEN <<i + n>> ELSE <<>>
    [] r.k = "set" ->
         IF i <= Len(c.t) /\ ((c.t[i] \in r.in \/ c.f[i] \in r.in) # r.neg)
         THEN <<i + 1>> ELSE <<>>
    [] r.k = "digit" ->
         IF i <= Len(c.t) /\ c.t[i] \in Digits THEN <<i + 1>> ELSE <<>>
    [] r.k = "space" ->
         IF i <= Len(c.t) /\ c.t[i] \in Whitespace THEN <<i + 1>> ELSE <<>>
    [] r.k = "nonspace" ->
         IF i <= Len(c.t) /\ c.t[i] \notin Whitespace THEN <<i + 1>> ELSE <<>>
    [] r.k = "any" ->
         IF i <= Len(c.t) /\ c.t[i] # "\n" THEN <<i + 1>> ELSE <<>>
    [] r.k = "wordb" -> IF AtWordB(c.t, i) THEN <<i>> ELSE <<>>
    [] r.k = "bol" -> IF i = 1 THEN <<i>> ELSE <<>>
    [] r.k = "eol" ->
         IF i = Len(c.t) + 1 \/ (i = Len(c.t) /\ c.t[i] = "\n")
         THEN <<i>> ELSE <<>>
    [] r.k = "cat" -> CatEnds(r.rs, 1, c, i)
    [] r.k = "alt" -> Flatten([x \in 1..Len(r.rs) |-> Ends(r.rs[x], c, i)])
    [] r.k = "rep" -> RepEnds(r, r.lo, r.hi, c, i)

\* pattern.match(text): a match at the start of the text.
Match(r, t, ic) == Ends(r, Subject(t, ic), 1) # <<>>

\* The leftmost match that starts at one of the positions lo..hi:
\* <<start, end>>, or <<>>; the left half of the positions is tried first.
RECURSIVE FirstIn(_, _, _, _)
FirstIn(r, c, lo, hi) ==
  IF lo > hi THEN <<>>
  ELSE IF lo = hi
  THEN LET e == Ends(r, c, lo) IN IF e # <<>> THEN <<lo, e[1]>> ELSE <<>>
  ELSE LET left == FirstIn(r, c, lo, (lo + hi) \div 2)
       IN IF left # <<>> THEN left ELSE FirstIn(r, c, (lo + hi) \div 2 + 1, hi)

\* The leftmost match at or after position from: <<start, end>>, or <<>>.
FirstMatch(r, c, from) == FirstIn(r, c, from, Len(c.t) + 1)

\* pattern.search(text) is not None.
Search(r, t, ic) == FirstMatch(r, Subject(t, ic), 1) # <<>>

\* len(pattern.findall(text)): the non-overlapping matches, left to right;
\* after an empty match the scan moves on by one character.
RECURSIVE CountFrom(_, _, _)
CountFrom(r, c, from) ==
  LET m == FirstMatch(r, c, from)
  IN IF m = <<>> THEN 0
     ELSE 1 + CountFrom(r, c, IF m[2] > m[1] THEN m[2] ELSE m[2] + 1)

FindallCount(r, t, ic) == CountFrom(r, Subject(t, ic), 1)

\* pattern.split(text) for a pattern that is one capturing group: the text
\* between the matches and the matches, alternating, first and last a
\* text between.
RECURSIVE SplitFrom(_, _, _)
SplitFrom(r, c, from) ==
  LET m == FirstMatch(r, c, from)
  IN IF m = <<>> \/ m[2] = m[1] THEN <<SubSeq(c.t, from, Len(c.t))>>
     ELSE <<SubSeq(c.t, from, m[1] - 1), SubSeq(c.t, m[1], m[2] - 1)>>
            \o SplitFrom(r, c, m[2])

Split(r, t, ic) == SplitFrom(r, Subject(t, ic), 1)

\* ------------------------------------------------------------------------
\* Strings
\* ------------------------------------------------------------------------

\* ''.join(f(c) for c in t if keep(c)), f giving a string per character.
MapChars(t, keep(_), f(_)) ==
  Flatten([i \in 1..Len(t) |-> IF keep(t[i]) THEN f(t[i]) ELSE <<>>])

CountChars(t, P(_)) == Cardinality({i \in 1..Len(t) : P(t[i])})

\* str.strip()
RECURSIVE LStrip(_)
LStrip(t) == IF t # <<>> /\ Head(t) \in Whitespace THEN LStrip(Tail(t)) ELSE t
RECURSIVE RStrip(_)
RStrip(t) == IF t # <<>> /\ t[Len(t)] \in Whitespace
             THEN RStrip(SubSeq(t, 1, Len(t) - 1)) ELSE t
Strip(t) == RStrip(LStrip(t))

\* str.split() without arguments: the maximal runs of non-whitespace.
RECURSIVE SplitWs(_)
SplitWs(t) ==
  LET s == LStrip(t)
      n == IF \E i \in 1..Len(s) : s[i] \in Whitespace
           THEN (CHOOSE i \in 1..Len(s) :
                   s[i] \in Whitespace /\ \A j \in 1..(i - 1) : s[j] \notin Whitespace) - 1
           ELSE Len(s)
  IN IF s = <<>> THEN <<>>
     ELSE <<SubSeq(s, 1, n)>> \o SplitWs(SubSeq(s, n + 1, Len(s)))

\* ' '.join(words)
RECURSIVE JoinSp(_)
JoinSp(ws) == IF ws = <<>> THEN <<>>
              ELSE IF Len(ws) = 1 THEN ws[1]
              ELSE ws[1] \o <<" ">> \o JoinSp(Tail(ws))

\* re.sub(r'\s+', ' ', t): every run of whitespace becomes one space.
CollapseWs(t) ==
  Flatten([i \in 1..Len(t) |->
             IF t[i] \notin Whitespace THEN <<t[i]>>
             ELSE IF i = 1 \/ t[i - 1] \notin Whitespace THEN <<" ">>
             ELSE <<>>])

StartsWith(t, p) == Len(t) >= Len(p) /\ SubSeq(t, 1, Len(p)) = p

\* ------------------------------------------------------------------------
\* normalize_text
\* ------------------------------------------------------------------------

\* The characters of '."\'-_`'; the backtick is written "U+0060".
ObfuscationPunct == {".", "\"", "'", "-", "_", "U+0060"}

\* deobfuscate_word with the marks counted against every character of the
\* word instead of its alphanumeric characters.
share_of_word(word) ==
  LET punct_count == CountChars(word, LAMBDA c : c \in ObfuscationPunct)
  IN IF Len(word) < 5 THEN word
     ELSE IF 10 * punct_count >= Len(word) * 4 /\ punct_count >= 2
          THEN MapChars(word, LAMBDA c : c \notin ObfuscationPunct, LAMBDA c : <<c>>)
          ELSE word

\* Step 3 helper: t.e.l.e.g.r.a.m -> telegram.
deobfuscate_word(word) ==
  LET punct_count == CountChars(word, LAMBDA c : c \in ObfuscationPunct)
      char_count == CountChars(word, IsAlnum)
  IN IF Len(word) < 5 THEN word
     ELSE IF 10 * punct_count >= char_count * 4 /\ punct_count >= 2
          THEN MapChars(word, LAMBDA c : c \notin ObfuscationPunct, LAMBDA c : <<c>>)
          ELSE word

\* Step 4 helper: leetspeak folding of a span that is not a URL.
RECURSIVE normalize_segment(_)
normalize_segment(segment) ==
  IF (\E i \in 1..Len(segment) : segment[i] = "/")
       \/ StartsWith(segment, Chars("http")) \/ StartsWith(segment, Chars("www"))
       \/ StartsWith(segment, Chars("t.me")) \/ StartsWith(segment, Chars("bit.ly"))
  THEN segment
  ELSE IF segment # <<>> /\ Head(segment) = "@"
       THEN IF Len(segment) > 1
            THEN <<"@">> \o normalize_segment(Tail(segment))
            ELSE segment
       ELSE MapChars(segment, LAMBDA c : TRUE,
                     LAMBDA c : IF c \in DOMAIN LEETSPEAK_MAP
                                THEN <<LEETSPEAK_MAP[c]>> ELSE <<c>>)

\* (https?://\S+|www\.\S+|t\.me/\S+|\S+\.ly/\S+), compiled without flags.
normalize_url_pattern ==
  Alt(<<Cat(<<Lit("http"), Opt(Lit("s")), Lit("://"), Plus(NonSpace)>>),
        Cat(<<Lit("www."), Plus(NonSpace)>>),
        Cat(<<Lit("t.me/"), Plus(NonSpace)>>),
        Cat(<<Plus(NonSpace), Lit(".ly/"), Plus(NonSpace)>>)>>)

\* normalize_text without its step 2: the homoglyphs stay in the text.
keep_homoglyphs(text) == text

\* Step 2 of normalize_text: each homoglyph becomes the letter it imitates.
map_homoglyphs(text) ==
  MapChars(text, LAMBDA c : TRUE,
           LAMBDA c : IF c \in DOMAIN CYRILLIC_TO_LATIN
                      THEN <<CYRILLIC_TO_LATIN[c]>> ELSE <<c>>)

normalize_text(text) ==
  IF text = <<>> THEN <<>>
  ELSE
    LET \* Step 1: remove zero-width characters
        s1 == MapChars(text, LAMBDA c : c \notin ZERO_WIDTH_CHARS, LAMBDA c : <<c>>)
        \* Step 2: map homoglyphs (Cyrillic, Greek)
        s2 == map_homoglyphs(s1)
        \* Step 2b: NFKD, then drop the combining marks
        s2b == MapChars(MapChars(s2, LAMBDA c : TRUE, Nfkd),
                        LAMBDA c : c \notin CombiningMarks, LAMBDA c : <<c>>)
        \* Step 3: period/quote obfuscation, word by word
        words == SplitWs(s2b)
        s3 == JoinSp([i \in 1..Len(words) |-> deobfuscate_word(words[i])])
        \* Step 4: leetspeak outside the URL-like spans
        parts == Split(normalize_url_pattern, s3, FALSE)
        s4 == Flatten([i \in 1..Len(parts) |->
                 IF Match(normalize_url_pattern, parts[i], FALSE)
                 THEN parts[i] ELSE normalize_segment(parts[i])])
        \* Step 5: collapse multiple spaces
    IN Strip(CollapseWs(s4))

\* The loop over the characters left after the first one.
first_char_only(text) == text # <<>> /\ text[1] \in DOMAIN CYRILLIC_TO_LATIN

has_homoglyph_obfuscation(text) ==
  \E i \in 1..Len(text) : text[i] \in DOMAIN CYRILLIC_TO_LATIN

has_fake_badge(text) ==
  \E i \in 1..Len(text) : text[i] \in FAKE_BADGE_CHARS

\* ------------------------------------------------------------------------
\* SpamDetector._compile_patterns: the compiled pattern registry
\* ------------------------------------------------------------------------

Lits(ws) == [i \in 1..Len(ws) |-> Lit(ws[i])]
\* w1\s*w2\s*...\s*wn
Phrase(ws) ==
  Cat([i \in 1..(2 * Len(ws) - 1) |-> IF i % 2 = 1 THEN Lit(ws[(i + 1) \div 2]) ELSE Sp])
\* (w\s*)?
OptW(w) == Opt(Cat(<<Lit(w), Sp>>))
\* \b(...)\b
Bounded(r) == Cat(<<WordB, r, WordB>>)

AlnumUnderscore == AsciiLetters \cup Digits \cup {"_"}     \* [a-zA-Z0-9_]
Alnum == AsciiLetters \cup Digits                           \* [a-zA-Z0-9]
Separator == {"-", "."} \cup Whitespace                     \* [-.\s]

crypto_keywords ==
  Bounded(Alt(
    Lits(<<"crypto", "bitcoin", "btc", "ethereum", "eth", "altcoin", "blockchain",
           "nft", "binance", "coinbase", "kraken", "kucoin", "bybit", "okx",
           "bitget", "mexc", "usdt", "usdc", "tether", "dogecoin", "doge",
           "shiba", "pepe", "defi">>)
    \o <<Phrase(<<"yield", "farm">>)>>
    \o Lits(<<"staking", "airdrop", "whitelist", "presale", "web3", "metaverse",
              "token", "ico", "ido", "forex">>)
    \o <<Phrase(<<"fx", "trading">>),
         Phrase(<<"binary", "option">>),
         Cat(<<Lit("trading"), Sp, Words(<<"signal", "bot", "group">>)>>)>>
    \o Lits(<<"10x", "100x", "1000x">>)
    \o <<Cat(<<Lit("moon"), Opt(Lit("ing"))>>)>>
    \o Lits(<<"lambo", "hodl", "wagmi", "ngmi", "fomo", "fud">>)))

seed_phrase_scam ==
  Bounded(Alt(<<
    Phrase(<<"seed", "phrase">>),
    Phrase(<<"recovery", "phrase">>),
    Lit("mnemonic"),
    Cat(<<Lit("12"), Sp, Lit("word"), Opt(Lit("s"))>>),
    Cat(<<Lit("24"), Sp, Lit("word"), Opt(Lit("s"))>>),
    Cat(<<Lit("multi"), Opt(AnyChar), Lit("sig"), Opt(Lit("nature"))>>),
    Cat(<<Lit("help"), Sp, OptW("me"), Words(<<"transfer", "withdraw", "access">>)>>),
    Cat(<<Lit("share"), Sp, Plus(Digit), Lit("%")>>),
    Cat(<<Lit("split"), Sp, OptW("the"), Words(<<"profit", "funds">>)>>),
    Cat(<<Lit("stuck"), Sp, OptW("in"), Words(<<"wallet", "exchange">>)>>),
    Cat(<<Lit("can't"), Sp, Words(<<"access", "withdraw">>)>>),
    Cat(<<Lit("need"), Sp, Words(<<"help", "gas", "fee">>), Sp, Lit("to"), Sp,
          Words(<<"transfer", "withdraw">>)>>)>>))

financial_promises ==
  Alt(<<
    Cat(<<Lit("$"), Rep(Digit, 1, 3),
          Star(Cat(<<Opt(Lit(",")), Rep(Digit, 3, 3)>>)),
          Opt(Cat(<<Lit("."), Rep(Digit, 2, 2)>>)), Sp,
          Opt(Words(<<"per", "a", "every", "each">>)), Sp,
          Words(<<"day", "week", "month", "hour">>)>>),
    Cat(<<Lit("guaranteed"), Sp,
          Alt(<<Cat(<<Lit("return"), Opt(Lit("s"))>>), Lit("profit"), Lit("income")>>)>>),
    Cat(<<Lit("double"), Sp, Lit("your"), Sp, Words(<<"money", "investment">>)>>),
    Phrase(<<"risk", "free">>),
    Phrase(<<"no", "risk">>),
    Phrase(<<"zero", "risk">>),
    Cat(<<Plus(Digit), Lit("%"), Sp,
          Words(<<"daily", "weekly", "monthly", "roi", "return", "profit">>)>>),
    Cat(<<Words(<<"turn", "transform", "convert">>), Sp, Opt(Lit("$")), Plus(Digit), Sp,
          Words(<<"into", "to">>), Sp, Opt(Lit("$")), Plus(Digit)>>),
    Cat(<<Words(<<"make", "earn">>), Sp, Opt(Lit("$")), Plus(Digit),
          Opt(OneOf({"k", "K"})), Opt(Lit("+")), Sp,
          Words(<<"daily", "weekly", "monthly", "passive">>)>>),
    Phrase(<<"passive", "income">>),
    Phrase(<<"financial", "freedom">>),
    Cat(<<Lit("quit"), Sp, OptW("your"),
          Alt(<<Lit("job"), Cat(<<Lit("9"), Opt(AnyChar), Lit("5")>>)>>)>>),
    Cat(<<Lit("work"), Sp, Lit("from"), Sp, Words(<<"home", "anywhere">>),
          Star(AnyChar), Lit("$")>>)>>)

contact_solicitation ==
  Alt(<<
    Cat(<<WordB,
          Alt(<<Lit("contact"), Lit("message"), Lit("text"), Phrase(<<"chat", "with">>),
                Lit("reach"), Lit("dm"), Lit("pm"), Lit("inbox")>>), Sp,
          Opt(Words(<<"me", "us", "him", "her">>)), Sp,
          Opt(Words(<<"on", "at", "via", "through", "@">>)), Sp,
          Opt(Words(<<"whatsapp", "telegram", "signal", "wechat", "line", "viber",
                      "discord", "instagram", "ig", "facebook", "fb", "twitter", "x",
                      "tiktok", "snapchat">>)),
          WordB>>),
    Cat(<<WordB, Words(<<"whatsapp", "telegram", "signal", "discord">>), Sp,
          Opt(Words(<<"me", "us", "now", "today", "asap">>)), WordB>>),
    Cat(<<WordB, Lit("send"), Sp, OptW("a"), Words(<<"dm", "pm", "message">>), WordB>>),
    Cat(<<WordB, Alt(<<Lit("hit"), Phrase(<<"slide", "into">>)>>), Sp,
          Opt(Words(<<"my", "the">>)), Sp, Words(<<"dm", "inbox">>), WordB>>),
    Cat(<<WordB, Words(<<"add", "follow">>), Sp, Lit("me"), Sp,
          Words(<<"on", "@">>), WordB>>)>>)

platform_redirect ==
  Alt(<<
    Cat(<<Lit("t.me/"), Plus(OneOf(AlnumUnderscore))>>),
    Cat(<<Lit("wa.me/"), Plus(Digit)>>),
    Cat(<<Lit("chat.whatsapp.com/"), Plus(OneOf(Alnum))>>),
    Cat(<<Lit("discord."), Words(<<"gg", "com/invite">>), Lit("/"), Plus(OneOf(Alnum))>>),
    Cat(<<Lit("@"), Plus(OneOf(AlnumUnderscore)), Sp, OptW("on"),
          Words(<<"telegram", "whatsapp", "insta", "ig">>)>>)>>)

\* Compiled without re.IGNORECASE.
phone_patterns ==
  Alt(<<
    Cat(<<Lit("+"), Rep(Digit, 1, 3), Opt(OneOf(Separator)), Opt(Lit("(")),
          Rep(Digit, 1, 4), Opt(Lit(")")), Opt(OneOf(Separator)), Rep(Digit, 1, 4),
          Opt(OneOf(Separator)), Rep(Digit, 1, 9)>>),
    Cat(<<Lit("("), Rep(Digit, 3, 3), Lit(")"), Sp, Rep(Digit, 3, 3),
          Opt(OneOf(Separator)), Rep(Digit, 4, 4)>>),
    Cat(<<WordB, Rep(Digit, 3, 3), Opt(OneOf(Separator)), Rep(Digit, 3, 3),
          Opt(OneOf(Separator)), Rep(Digit, 4, 4), WordB>>),
    Cat(<<Lit("+"), Rep(Digit, 10, 15), WordB>>)>>)

email_pattern ==
  Cat(<<Plus(OneOf(Alnum \cup {".", "_", "%", "+", "-"})), Sp,
        Words(<<"@", "[at]", "(at)">>), Sp,
        Plus(OneOf(Alnum \cup {".", "-"})), Sp,
        Words(<<".", "[dot]", "(dot)">>), Sp,
        Words(<<"com", "org", "net", "io", "co", "info", "biz", "xyz">>), WordB>>)

channel_promotion ==
  Alt(<<
    Cat(<<WordB,
          Alt(<<Cat(<<Lit("check"), Sp, Opt(Lit("out"))>>), Lit("visit"), Lit("see"),
                Lit("view"), Lit("watch"),
                Cat(<<Lit("subscribe"), Sp, Opt(Lit("to"))>>), Lit("follow")>>), Sp,
          Opt(Words(<<"my", "our", "the">>)), Sp,
          Words(<<"channel", "page", "profile", "account", "video", "content", "link">>),
          WordB>>),
    Cat(<<WordB, Words(<<"my", "our">>), Sp, OptW("new"),
          Words(<<"channel", "video", "content", "podcast">>), WordB>>),
    Cat(<<WordB, Lit("sub"), Opt(Lit("scribe")), Sp, OptW("to"),
          Words(<<"my", "our", "the">>), WordB>>),
    Cat(<<WordB, Lit("link"), Sp, Words(<<"in", "on">>), Sp, OptW("my"),
          Words(<<"bio", "profile", "description", "about">>), WordB>>),
    Cat(<<WordB,
          Alt(<<Cat(<<Lit("i"), Sp, OptW("also"), Words(<<"make", "create", "post">>)>>),
                Phrase(<<"check", "my">>)>>), Sp,
          OptW("similar"),
          Alt(<<Lit("content"), Cat(<<Lit("video"), Opt(Lit("s"))>>)>>), WordB>>)>>)

self_promo_phrases ==
  Bounded(Alt(<<
    Phrase(<<"check", "this", "out">>),
    Phrase(<<"must", "watch">>),
    Phrase(<<"you", "need", "to", "see">>),
    Cat(<<Lit("click"), Sp, OptW("the"), Lit("link")>>),
    Cat(<<Lit("tap"), Sp, OptW("the"), Lit("link")>>),
    Phrase(<<"link", "below">>),
    Phrase(<<"see", "link">>),
    Phrase(<<"bio", "link">>),
    Cat(<<Lit("support"), Sp, Words(<<"my", "our">>), Sp,
          Words(<<"channel", "content">>)>>)>>))

book_promotion ==
  Bounded(Alt(<<
    Cat(<<Lit("my"), Sp, OptW("new"),
          Words(<<"book", "ebook", "e-book", "guide", "course", "program",
                  "masterclass">>)>>),
    Cat(<<Words(<<"book", "ebook">>), Sp,
          Alt(<<Lit("available"), Phrase(<<"out", "now">>), Phrase(<<"on", "amazon">>),
                Lit("link")>>)>>),
    Cat(<<Lit("get"), Sp, Words(<<"my", "the", "your">>), Sp, OptW("free"),
          Words(<<"copy", "ebook", "guide", "book">>)>>),
    Cat(<<Lit("download"), Sp, Opt(Words(<<"my", "the", "your">>)), Sp, OptW("free"),
          Words(<<"guide", "ebook", "book", "pdf">>)>>),
    Cat(<<Words(<<"available", "order", "buy">>), Sp, OptW("now"), OptW("on"),
          Words(<<"amazon", "kindle", "audible">>)>>),
    Cat(<<Lit("#ad"), WordB>>),
    Cat(<<Lit("#sponsored"), WordB>>),
    Cat(<<Lit("#affiliate"), WordB>>)>>))

url_pattern ==
  Alt(<<
    Cat(<<Lit("http"), Opt(Lit("s")), Lit("://"), Plus(NonSpace)>>),
    Cat(<<Lit("www."), Plus(NonSpace)>>),
    Cat(<<WordB, Plus(OneOf(Alnum \cup {"-"})), Lit("."),
          Words(<<"com", "org", "net", "io", "co", "info", "biz", "xyz", "click",
                  "link", "me">>),
          Lit("/"), Star(NonSpace), WordB>>)>>)

shortened_urls ==
  Cat(<<WordB,
        Words(<<"bit.ly", "tinyurl", "t.co", "goo.gl", "ow.ly", "buff.ly",
                "rebrand.ly", "short.link", "linktr.ee", "cutt.ly", "rb.gy", "is.gd",
                "v.gd", "shorte.st", "adf.ly", "trib.al", "soo.gd", "s.id">>),
        Lit("/"), Plus(NonSpace), WordB>>)

bot_generic_phrases ==
  Bounded(Alt(<<
    Cat(<<Lit("this"), Sp, OptW("video"), Phrase(<<"changed", "my", "life">>)>>),
    Phrase(<<"i", "was", "struggling", "until">>),
    Cat(<<Phrase(<<"finally", "found">>), Sp, OptW("the"),
          Words(<<"solution", "answer">>)>>),
    Cat(<<Phrase(<<"best", "decision", "i">>), Sp, OptW("ever"), Lit("made")>>),
    Cat(<<Phrase(<<"wish", "i">>), Sp, OptW("had"), Words(<<"found", "known">>), Sp,
          Alt(<<Lit("this"), Phrase(<<"about", "this">>)>>), Sp, Lit("sooner")>>),
    Phrase(<<"this", "is", "exactly", "what", "i", "needed">>),
    Cat(<<Lit("can't"), Sp, Lit("believe"), Sp, OptW("this"), OptW("actually"),
          Lit("work"), Opt(Lit("s"))>>),
    Phrase(<<"life", "changing">>),
    Phrase(<<"game", "changer">>),
    Phrase(<<"must", "have">>),
    Phrase(<<"must", "try">>),
    Cat(<<Phrase(<<"i", "started">>), Sp, Words(<<"and", "then">>), Sp,
          Phrase(<<"never", "looked", "back">>)>>)>>))

bot_template_markers ==
  Alt(<<
    Lit("[name]"), Lit("[product]"), Lit("[link]"), Lit("[url]"),
    Cat(<<Lit("{"), LazyStar(AnyChar), Lit("}")>>),
    Cat(<<Lit("<"), Sp, Lit("insert"), Sp, LazyStar(AnyChar), Sp, Lit(">")>>),
    Cat(<<Lit("["), Sp, Lit("your"), Sp, LazyStar(AnyChar), Sp, Lit("]")>>)>>)

\* The leading emoji: pushpin, red circle, up arrow with its variation
\* selector, pointing up, pointing down.
fake_pinned ==
  Cat(<<
    Opt(Alt(<<Chr("U+1F4CC"), Chr("U+1F534"),
              Cat(<<Chr("U+2B06"), Chr("U+FE0F")>>),
              Chr("U+1F446"), Chr("U+1F447")>>)),
    Sp,
    Alt(<<
      Cat(<<Lit("pinned"), Sp, Words(<<"by", "comment", "message">>)>>),
      Cat(<<Lit("official"), Sp, Words(<<"pinned", "announcement", "message">>)>>),
      Cat(<<Bol, Sp, Chr("U+1F4CC"), Star(AnyChar), Lit("pinned")>>),
      Phrase(<<"read", "my", "pinned">>)>>)>>)

\* Checked against author_name.
impersonation_suffixes ==
  Cat(<<Words(<<"official", "giveaway", "telegram", "team", "real", "verified",
                "gaming", "live", "support", "admin", "help", "bot", "promo",
                "moderator", "mod", "staff", "vip">>),
        Sp, Eol>>)

adult_content ==
  Bounded(Alt(<<
    Lit("onlyfans"),
    Phrase(<<"of", "link">>),
    Lit("18+"),
    Phrase(<<"adult", "content">>),
    Lit("xxx"), Lit("porn"), Lit("nude"), Lit("nudes"),
    Cat(<<Lit("sexy"), Sp,
          Alt(<<Cat(<<Lit("pic"), Opt(Lit("s"))>>), Cat(<<Lit("photo"), Opt(Lit("s"))>>),
                Cat(<<Lit("video"), Opt(Lit("s"))>>)>>)>>),
    Cat(<<Lit("dating"), Sp, Words(<<"site", "app">>)>>),
    Lit("hookup"),
    Cat(<<Lit("s"), OneOf({"e", "3"}), Lit("x"), Opt(Words(<<"y", "ting">>))>>),
    Cat(<<Lit("h"), OneOf({"o", "0"}), Lit("rny")>>),
    Cat(<<Words(<<"check", "see">>), Sp, Words(<<"my", "the">>), Sp,
          Words(<<"profile", "bio">>), Sp,
          OneOf({";", ")", "U+1F609", "U+1F525", "U+1F48B"})>>)>>))

Year20 == Cat(<<Lit("20"), Rep(Digit, 2, 2)>>)                \* 20\d{2}
Standalone(w) ==                                               \* ^w[!\.\s]*$
  Cat(<<Bol, Lit(w), Star(OneOf({"!", "."} \cup Whitespace)), Eol>>)

engagement_bait ==
  Bounded(Alt(<<
    Phrase(<<"like", "if", "you">>),
    Phrase(<<"comment", "if", "you">>),
    Cat(<<Lit("who"), Opt(Cat(<<Sp, Lit("else")>>)), Sp, OptW("is"),
          Words(<<"here", "watching">>), Sp, OptW("in"), Year20>>),
    Cat(<<Phrase(<<"like", "this", "comment">>), Sp, Words(<<"if", "so">>)>>),
    Cat(<<Lit("anyone"), Sp, OptW("else"), OptW("here"), Words(<<"in", "from">>), Sp,
          Year20>>),
    Standalone("first"), Standalone("second"), Standalone("third"),
    Phrase(<<"early", "squad">>),
    Phrase(<<"notification", "squad">>),
    Cat(<<Lit("who"), Opt(Lit("'")), Lit("s"), Sp, OptW("still"),
          Words(<<"watching", "listening">>), Sp, OptW("this"), OptW("in"), Year20>>)>>))

\* --- Legitimacy signals ---

MinSec == Cat(<<Rep(Digit, 1, 2), Lit(":"), Rep(Digit, 2, 2)>>)   \* \d{1,2}:\d{2}

\* Compiled without re.IGNORECASE.
timestamp_pattern ==
  Alt(<<
    Cat(<<WordB, MinSec, Opt(Cat(<<Lit(":"), Rep(Digit, 2, 2)>>)), WordB>>),
    Cat(<<WordB, Lit("at"), Sp, MinSec>>),
    Lit("timestamp"),
    Lit("timecode")>>)

\* w'?s
Whats(w) == Cat(<<Lit(w), Opt(Lit("'")), Lit("s")>>)

question_pattern ==
  Alt(<<
    Cat(<<Lit("?"), Sp, Eol>>),
    Bounded(Alt(
      Lits(<<"how", "what", "why", "when", "where", "who", "which", "whose", "whom">>)
      \o <<Cat(<<Lit("can"), Sp, Words(<<"you", "i", "we", "someone">>)>>),
           Cat(<<Lit("could"), Sp, Words(<<"you", "i", "we">>)>>),
           Cat(<<Lit("would"), Sp, Words(<<"you", "i", "we">>)>>),
           Cat(<<Lit("should"), Sp, Words(<<"i", "we">>)>>),
           Cat(<<Lit("does"), Sp, Words(<<"anyone", "somebody", "this">>)>>),
           Cat(<<Lit("has"), Sp, Words(<<"anyone", "somebody">>)>>),
           Cat(<<Lit("is"), Sp, Words(<<"there", "this", "it">>)>>),
           Cat(<<Lit("are"), Sp, Words(<<"there", "these">>)>>),
           Whats("what"), Whats("where"), Whats("who"), Whats("how")>>))>>)

genuine_discussion ==
  Bounded(Alt(<<
    Phrase(<<"i", "think">>),
    Phrase(<<"in", "my", "opinion">>),
    Lit("imo"), Lit("imho"),
    Cat(<<Lit("i"), Sp, Words(<<"agree", "disagree">>)>>),
    Cat(<<Lit("great"), Sp,
          Words(<<"point", "video", "content", "explanation", "tutorial">>)>>),
    Cat(<<Lit("thank"), Opt(Lit("s")), Sp,
          Alt(<<Lit("for"), Phrase(<<"so", "much">>)>>)>>),
    Phrase(<<"thank", "you">>),
    Cat(<<Lit("this"), Sp, Words(<<"helped", "explains", "clarifies">>)>>),
    Cat(<<Lit("i"), Sp,
          Alt(<<Lit("learned"), Lit("understood"),
                Cat(<<Lit("finally"), Sp, Words(<<"get", "understand">>)>>)>>)>>),
    Cat(<<Lit("good"), Sp, Words(<<"job", "work", "explanation">>)>>),
    Cat(<<Lit("well"), Sp, Words(<<"explained", "done", "said">>)>>),
    Lit("helpful"), Lit("informative"), Lit("insightful"),
    Cat(<<Lit("i"), Opt(Lit("'")), Lit("ve"), Sp, Lit("been"), Sp,
          Words(<<"struggling", "trying", "working">>)>>),
    Cat(<<Phrase(<<"as", "a">>), Sp,
          Words(<<"beginner", "student", "developer", "teacher", "parent">>)>>)>>))

\* ^@[a-zA-Z0-9_]+\s, compiled without re.IGNORECASE.
reply_pattern == Cat(<<Bol, Lit("@"), Plus(OneOf(AlnumUnderscore)), Space>>)

balanced_feedback ==
  Bounded(Alt(<<
    Cat(<<Lit("but"), Sp,
          Alt(<<Phrase(<<"i", "think">>), Lit("maybe"), Lit("however")>>)>>),
    Cat(<<Lit("one"), Sp, Words(<<"thing", "suggestion", "critique">>)>>),
    Cat(<<Lit("could"), Sp, Alt(<<Lit("be"), Phrase(<<"have", "been">>)>>), Sp,
          Words(<<"better", "improved">>)>>),
    Cat(<<Lit("i"), Sp, OptW("would"), Words(<<"suggest", "recommend">>)>>),
    Cat(<<Words(<<"slight", "minor", "small">>), Sp,
          Words(<<"issue", "problem", "critique">>)>>),
    Cat(<<Phrase(<<"not", "sure">>), Sp, Words(<<"about", "if">>)>>),
    Phrase(<<"on", "the", "other", "hand">>)>>))

educational_context ==
  Bounded(Alt(<<
    Phrase(<<"what", "is">>),
    Cat(<<Lit("how"), Sp, Words(<<"does", "do", "to">>)>>),
    Lit("explain"),
    Cat(<<Lit("learn"), Opt(Lit("ing")), Sp, Lit("about")>>),
    Cat(<<Lit("understand"), Opt(Lit("ing"))>>),
    Lit("teach"), Lit("tutorial"), Lit("guide"), Lit("beginner"), Lit("newbie"),
    Lit("noob"),
    Phrase(<<"started", "learning">>),
    Phrase(<<"can", "someone", "explain">>),
    Lit("eli5"),
    Phrase(<<"difference", "between">>),
    Phrase(<<"compared", "to">>),
    Cat(<<Lit("pro"), Opt(Lit("s")), Sp, Lit("and"), Sp, Lit("con"), Opt(Lit("s"))>>),
    Cat(<<Lit("advantage"), Opt(Lit("s")), Sp, Lit("and"), Sp, Lit("disadvantage"),
          Opt(Lit("s"))>>)>>))

\* ------------------------------------------------------------------------
\* Floating point
\*
\* A Python float is an IEEE-754 double.  Every value analyze() computes
\* is a multiple of 2^-72 below 256, so a double is held exactly as a sign
\* and a magnitude of four 20-bit limbs, least significant first, counting
\* units of 2^-72; each operation computes the exact result and rounds it
\* to 53 significant bits, ties to even, as the hardware does.
\* ------------------------------------------------------------------------

Radix == 2 ^ 20
MagZero == <<0, 0, 0, 0>>
\* 1.0 is bit 72: bit 12 of the fourth limb.
MagOne == <<0, 0, 0, 2 ^ 12>>

Min(a, b) == IF a <= b THEN a ELSE b
Max(a, b) == IF a >= b THEN a ELSE b

RECURSIVE BitLen(_)
BitLen(n) == IF n = 0 THEN 0 ELSE 1 + BitLen(n \div 2)

\* a * n + b * m + carry, limb by limb from limb j; the top limb keeps
\* what overflows it.
RECURSIVE MagLin(_, _, _, _, _, _)
MagLin(a, n, b, m, j, carry) ==
  LET v == a[j] * n + b[j] * m + carry
  IN IF j = Len(a) THEN <<v>>
     ELSE <<v % Radix>> \o MagLin(a, n, b, m, j + 1, v \div Radix)

MagAdd(a, b) == MagLin(a, 1, b, 1, 1, 0)
MagMul(a, n) == MagLin(a, n, MagZero, 0, 1, 0)

\* a - b for a >= b.
RECURSIVE MagSubFrom(_, _, _, _)
MagSubFrom(a, b, j, borrow) ==
  LET v == a[j] - b[j] - borrow
  IN IF j = Len(a) THEN <<v>>
     ELSE IF v < 0 THEN <<v + Radix>> \o MagSubFrom(a, b, j + 1, 1)
     ELSE <<v>> \o MagSubFrom(a, b, j + 1, 0)

MagSub(a, b) == MagSubFrom(a, b, 1, 0)

\* -1, 0 or 1 as a is below, equal to or above b.
RECURSIVE MagCmpFrom(_, _, _)
MagCmpFrom(a, b, j) ==
  IF j = 0 THEN 0
  ELSE IF a[j] < b[j] THEN -1
  ELSE IF a[j] > b[j] THEN 1
  ELSE MagCmpFrom(a, b, j - 1)

MagCmp(a, b) == MagCmpFrom(a, b, Len(a))

\* The limbs 1..n of a are all zero.
LowZero(a, n) == \A j \in 1..n : a[j] = 0

\* The position of the leading bit of the nonzero magnitude a.
TopBit(a) ==
  LET top == CHOOSE j \in 1..Len(a) : a[j] # 0 /\ \A k \in (j + 1)..Len(a) : a[k] = 0
  IN 20 * (top - 1) + BitLen(a[top]) - 1

\* The magnitude a cut below bit b of limb la, where low is what the limb
\* loses, and raised by one unit of that bit when up.
RoundTo(a, la, b, low, up) ==
  MagAdd([j \in 1..Len(a) |-> IF j < la THEN 0 ELSE IF j = la THEN a[la] - low ELSE a[j]],
         [j \in 1..Len(a) |-> IF j = la /\ up THEN 2 ^ b ELSE 0])

\* Round to nearest, ties to even: half is the weight of the first bit
\* lost, lost the bits lost from it down to the next limb boundary, exact
\* whether nothing nonzero lies below them.
RoundBits(a, la, b, low, lost, half, exact) ==
  RoundTo(a, la, b, low,
          lost > half \/ (lost = half /\ (~exact \/ (a[la] \div (2 ^ b)) % 2 = 1)))

RoundLimb(a, sticky, la, b) ==
  IF b > 0
  THEN RoundBits(a, la, b, a[la] % (2 ^ b), a[la] % (2 ^ b), 2 ^ (b - 1),
                 LowZero(a, la - 1) /\ ~sticky)
  ELSE RoundBits(a, la, b, 0, a[la - 1], 2 ^ 19, LowZero(a, la - 2) /\ ~sticky)

RoundShift(a, sticky, s) ==
  IF s <= 0 THEN a ELSE RoundLimb(a, sticky, (s \div 20) + 1, s % 20)

\* The magnitude a, followed by nonzero bits below the last limb when
\* sticky, rounded to 53 significant bits, ties to even.
Round53(a, sticky) ==
  IF a = MagZero THEN a ELSE RoundShift(a, sticky, TopBit(a) - 52)

Float(neg, mag) == [neg |-> neg /\ mag # MagZero, mag |-> mag]
Zero == Float(FALSE, MagZero)
One == Float(FALSE, MagOne)
FNeg(x) == Float(~x.neg, x.mag)

\* x + y
FAdd(x, y) ==
  Float(IF x.neg = y.neg \/ MagCmp(x.mag, y.mag) >= 0 THEN x.neg ELSE y.neg,
        Round53(IF x.neg = y.neg THEN MagAdd(x.mag, y.mag)
                ELSE IF MagCmp(x.mag, y.mag) >= 0 THEN MagSub(x.mag, y.mag)
                ELSE MagSub(y.mag, x.mag),
                FALSE))

\* n * x for an int n >= 0
FMulInt(n, x) == Float(x.neg, Round53(MagMul(x.mag, n), FALSE))

\* x >= y, x <= y
FGe(x, y) ==
  IF x.neg # y.neg THEN y.neg
  ELSE IF x.neg THEN MagCmp(x.mag, y.mag) <= 0 ELSE MagCmp(x.mag, y.mag) >= 0
FLe(x, y) == FGe(y, x)
FMin(x, y) == IF FLe(x, y) THEN x ELSE y
FMax(x, y) == IF FGe(x, y) THEN x ELSE y
FAbs(x) == Float(FALSE, x.mag)

\* float("nan"): not a number; every comparison with it is false.
NaN == [neg |-> FALSE, mag |-> <<>>]
IsNaN(x) == x.mag = <<>>
FLt(x, y) == ~IsNaN(x) /\ ~IsNaN(y) /\ ~FGe(x, y)

\* The builtins min(x, y) and max(x, y): x, unless y compares less (greater).
min_float(x, y) == IF FLt(y, x) THEN y ELSE x
max_float(x, y) == IF FLt(x, y) THEN y ELSE x

\* The quotient of the magnitude a by the int d, limb by limb from the
\* top limb j down, and the remainder: <<limbs, remainder>>.
RECURSIVE MagDivFrom(_, _, _, _)
MagDivFrom(a, d, j, rem) ==
  LET cur == rem * Radix + a[j]
  IN IF j = 1 THEN <<(<<cur \div d>>), cur % d>>
     ELSE LET rest == MagDivFrom(a, d, j - 1, cur % d)
          IN <<rest[1] \o <<cur \div d>>, rest[2]>>

\* The double nearest to n / d, as the literal n/d of the source denotes
\* (0 <= n / d <= 1): Dec(45, 100) is the float 0.45.
RoundQuotient(q) == Float(FALSE, Round53(q[1], q[2] # 0))
Dec(n, d) == RoundQuotient(MagDivFrom(MagMul(MagOne, n), d, 4, 0))

\* x * (0.5 ** i): a power of two scales a double exactly.
RECURSIVE Halve(_, _)
Halve(a, i) ==
  IF i = 0 THEN a
  ELSE Halve([j \in 1..Len(a) |->
                (a[j] \div 2) + (IF j < Len(a) THEN (a[j + 1] % 2) * (Radix \div 2) ELSE 0)],
             i - 1)

FHalve(x, i) == Float(x.neg, Halve(x.mag, i))

\* round(|x|, 3) in thousandths: the decimal nearest to the
\* exact value of x, a tie to the even one.
RoundHalfEven(q, r, rest) ==
  IF r > 2 ^ 11 \/ (r = 2 ^ 11 /\ (~rest \/ q % 2 = 1)) THEN q + 1 ELSE q
RoundThousandths(m) == RoundHalfEven(m[4] \div (2 ^ 12), m[4] % (2 ^ 12), LowZero(m, 3))
Round3(x) == RoundThousandths(MagMul(x.mag, 1000))

\* ------------------------------------------------------------------------
\* Inputs
\* ------------------------------------------------------------------------

\* The comments analysed: up to MaxWords words of the vocabulary, in its
\* order, joined by single spaces, and two texts of whitespace only.
MaxWords == 2

Vocabulary ==
  <<"@bob", "1:23", "dm", "btc", "eth", "xxx", "+1234", "no risk", "imo", "ok?">>

\* The increasing index sequences of at most k words, none before from.
RECURSIVE Picks(_, _)
Picks(from, k) ==
  {<<>>} \cup
  (IF k = 0 THEN {}
   ELSE UNION {{<<i>> \o p : p \in Picks(i + 1, k - 1)} : i \in from..Len(Vocabulary)})

TextOf(p) == JoinSp([j \in 1..Len(p) |-> Chars(Vocabulary[p[j]])])

BlankTexts == {<<" ">>, <<"\t", " ">>}
Texts == {TextOf(p) : p \in Picks(1, MaxWords)} \cup BlankTexts

\* Author display names: none, a suspicious suffix, a badge, both.
Authors ==
  {<<>>, Chars("x vip"), Chars("Bob") \o <<"U+2713">>, <<"U+2713">> \o Chars(" vip")}

LikeCounts == {0, 9, 10, 99, 100}

\* The threshold argument of the constructor: in and out of range, and no
\* number at all.
ThresholdArgs ==
  {FNeg(Dec(1, 2)), Zero, Dec(1, 2), FAdd(One, Dec(1, 2)), NaN}

\* The custom phrase lists of the constructor; a blank phrase, padding and
\* another case than the comments' are among them.
BlacklistArgs == {<<>>, <<Chars(" "), Chars("DM"), Chars("btc ")>>}
WhitelistArgs == {<<>>, <<(<<>>), Chars(" Eth")>>}

\* The homoglyphs that normalize to the character c.
Lookalikes(c) == {h \in DOMAIN CYRILLIC_TO_LATIN : CYRILLIC_TO_LATIN[h] = c}

\* The texts one more homoglyph substitution makes of text.
Substituted(text) ==
  {[text EXCEPT ![i] = h] : <<i, h>> \in
     UNION {{<<i, h>> : h \in Lookalikes(text[i])} : i \in 1..Len(text)}}

\* A text is rewritten at most MaxSubstitutions times.
MaxSubstitutions == 2

RECURSIVE Rewritten(_, _)
Rewritten(texts, n) ==
  IF n = 0 THEN texts
  ELSE Rewritten(texts \cup UNION {Substituted(t) : t \in texts}, n - 1)

\* The comments an adversary starts from: the single words.
PlainTexts == {TextOf(p) : p \in Picks(1, 1)} \ {<<>>}

\* Comments that name crypto keywords up to MaxRepeats times: btc and eth in
\* turn, one keyword twice, capitals, and two keywords run together.
MaxRepeats == 5

Repeated(n) == JoinSp([j \in 1..n |-> IF j % 2 = 1 THEN Chars("btc") ELSE Chars("eth")])

CryptoTexts ==
  {Repeated(n) : n \in 1..MaxRepeats}
    \cup {Chars("btc btc"), Chars("Btc ETH ok?"), Chars("btceth")}

\* Comments in which a stronger check and its weaker counterpart both find
\* something, the stronger alone, and the weaker alone.
PairTexts ==
  {Chars("dm t.me/ab www.bit.ly/x [name] must try"), Chars("dm t.me/ab"), Chars("dm"),
   Chars("www.bit.ly/x"), Chars("bit.ly/x"), Chars("www.a.io"), Chars("[name] must try"),
   Chars("must try")}

\* Comments with a look-alike letter (Cyrillic kha, Greek alpha): next to a
\* word of the custom phrase lists, and on their own.
HomoglyphTexts ==
  {Chars("eth ") \o <<"U+0445">>, Chars("dm ") \o <<"U+0445">>, <<"U+0445">>,
   Chars("ok? ") \o <<"U+03B1">>}

\* Comments of 29, 30, 200 and 201 characters, of words of six letters, with
\* blanks around them and with one and two spam phrases in them.
Fill(n) == [i \in 1..n |-> IF i % 7 = 0 THEN " " ELSE "a"]

LengthTexts ==
  {Fill(29), Fill(30), Fill(29) \o Chars("  "), Fill(200), Fill(201),
   Fill(200) \o Chars("  "), Chars(" ") \o Fill(201), Chars("dm ") \o Fill(198),
   Chars("dm xxx ") \o Fill(194)}

\* The comments that try the single checks of analyze().
ThemeTexts == CryptoTexts \cup PairTexts \cup HomoglyphTexts \cup LengthTexts

\* Comments with leetspeak characters: in plain words, in a mention at the
\* start and inside the comment, beside URL-like spans and beside a slash.
LeetTexts ==
  {Chars("fr33 m0ney"), Chars("@b0b"), Chars("@b0b on telegram"),
   Chars("hi @b0b on telegram"), Chars("www.a1.io h3y"), Chars("h3y www.a1.io"),
   Chars("bit.ly/x1 c4ll"), Chars("fr33 24/7")}

\* Comments with tokens that hold the punctuation of deobfuscate_word:
\* shorter than five characters, with one mark, with two marks among few and
\* among many letters, among other punctuation, and of marks only.
PunctTexts ==
  {Chars("t.e.l.e"), Chars("ab.cd.e"), Chars("ab.cd.efg"), Chars("a--b"),
   Chars("ab-cd"), Chars("abcd.-"), Chars("a.b.??????"), Chars("-----"),
   Chars("hi a.b.c"), Chars("don't"), Chars("x ----- y")}

\* Comments with characters of steps 1, 2 and 2b: a zero-width space, a
\* Cyrillic homoglyph, an accented letter, a ligature, and a mathematical
\* bold small alpha, whose compatibility decomposition is the Greek alpha.
UnicodeTexts ==
  {<<"a", "U+200B", "b">>, <<"U+0430", "b", "c">>, <<"c", "a", "f", "U+00E9">>,
   <<"U+FB01", "t">>, <<"U+1D6C2", "b", "c">>}

\* The comments that try the steps of normalize_text().
NormalizeTexts == LeetTexts \cup PunctTexts \cup UnicodeTexts

\* What two concurrent callers submit.
SharedTexts == {<<>>, Chars("dm"), Chars("eth"), Chars("btc xxx"), Chars("imo ok?")}

\* ------------------------------------------------------------------------
\* SpamDetector
\* ------------------------------------------------------------------------

\* re.compile(re.escape(pattern), re.IGNORECASE): the phrase, literally,
\* whatever its case.
CompileLiteral(pattern) == [k |-> "lit", s |-> LowerText(pattern)]

RECURSIVE compile_custom_patterns(_)
compile_custom_patterns(patterns) ==
  IF patterns = <<>> THEN <<>>
  ELSE LET pattern == Strip(Head(patterns))
       IN (IF pattern # <<>> THEN <<CompileLiteral(pattern)>> ELSE <<>>)
          \o compile_custom_patterns(Tail(patterns))

\* A constructor that stores the threshold as it is passed.
unclamped_detector(threshold_arg, blacklist_arg, whitelist_arg) ==
  [threshold |-> threshold_arg,
   blacklist_patterns |-> blacklist_arg,
   whitelist_patterns |-> whitelist_arg,
   compiled_blacklist |-> compile_custom_patterns(blacklist_arg),
   compiled_whitelist |-> compile_custom_patterns(whitelist_arg)]

\* SpamDetector(threshold, blacklist_patterns, whitelist_patterns); line 317:
\* self.threshold = max(0.0, min(1.0, threshold))
SpamDetector(threshold_arg, blacklist_arg, whitelist_arg) ==
  [threshold |-> max_float(Zero, min_float(One, threshold_arg)),
   blacklist_patterns |-> blacklist_arg,
   whitelist_patterns |-> whitelist_arg,
   compiled_blacklist |-> compile_custom_patterns(blacklist_arg),
   compiled_whitelist |-> compile_custom_patterns(whitelist_arg)]

\* A detector that never consults its whitelist.
whitelist_ignored(self, text) == FALSE

\* any(pattern.search(text) for pattern in self._compiled_whitelist)
check_whitelist(self, text) ==
  \E i \in 1..Len(self.compiled_whitelist) : Search(self.compiled_whitelist[i], text, TRUE)

\* match.group(0), or <<>> without a match.
Group0(t, m) == IF m = <<>> THEN <<>> ELSE SubSeq(t, m[1], m[2] - 1)

\* The first match of the first pattern that matches, or <<>>.
RECURSIVE FirstHit(_, _, _)
FirstHit(patterns, c, i) ==
  IF i > Len(patterns) THEN <<>>
  ELSE IF FirstMatch(patterns[i], c, 1) = <<>>
  THEN FirstHit(patterns, c, i + 1)
  ELSE FirstMatch(patterns[i], c, 1)

\* A detector that never consults its blacklist.
blacklist_ignored(self, text) == <<>>

\* The text the first matching blacklist pattern matched, or <<>> for None.
check_blacklist(self, text) ==
  Group0(text, FirstHit(self.compiled_blacklist, Subject(text, TRUE), 1))

\* ------------------------------------------------------------------------
\* What the patterns find in one text: <<start, end>> of the first match,
\* or <<>>.
\* ------------------------------------------------------------------------

ScanSubjects(text, normalized, c, raw) ==
  [had_obfuscation |-> has_homoglyph_obfuscation(text),
   normalized |-> normalized,
   seed_phrase_scam |-> FirstMatch(seed_phrase_scam, c, 1),
   crypto_keywords |-> FirstMatch(crypto_keywords, c, 1),
   match_count |-> FindallCount(crypto_keywords, LowerText(normalized), TRUE),
   financial_promises |-> FirstMatch(financial_promises, c, 1),
   platform_redirect |-> FirstMatch(platform_redirect, c, 1),
   contact_solicitation |-> FirstMatch(contact_solicitation, c, 1),
   phone_patterns |-> FirstMatch(phone_patterns, raw, 1),
   email_pattern |-> FirstMatch(email_pattern, c, 1),
   fake_pinned |-> FirstMatch(fake_pinned, c, 1),
   channel_promotion |-> FirstMatch(channel_promotion, c, 1),
   self_promo_phrases |-> FirstMatch(self_promo_phrases, c, 1),
   book_promotion |-> FirstMatch(book_promotion, c, 1),
   shortened_urls |-> FirstMatch(shortened_urls, c, 1),
   url_pattern |-> FirstMatch(url_pattern, c, 1),
   bot_template_markers |-> FirstMatch(bot_template_markers, c, 1),
   bot_generic_phrases |-> FirstMatch(bot_generic_phrases, c, 1),
   adult_content |-> FirstMatch(adult_content, c, 1),
   engagement_bait |-> FirstMatch(engagement_bait, c, 1),
   timestamp_pattern |-> FirstMatch(timestamp_pattern, raw, 1),
   reply_pattern |-> FirstMatch(reply_pattern, raw, 1),
   question_pattern |-> FirstMatch(question_pattern, c, 1),
   genuine_discussion |-> FirstMatch(genuine_discussion, c, 1),
   balanced_feedback |-> FirstMatch(balanced_feedback, c, 1),
   educational_context |-> FirstMatch(educational_context, c, 1)]

\* The patterns that ignore case search the normalized text, the others
\* the text as given.
ScanNormalized(text, normalized) ==
  ScanSubjects(text, normalized, Subject(normalized, TRUE), Subject(text, FALSE))

Scan(text) == ScanNormalized(text, normalize_text(text))

ScanAuthor(author_name) ==
  [has_fake_badge |-> has_fake_badge(author_name),
   impersonation_suffixes |-> FirstMatch(impersonation_suffixes, Subject(author_name, TRUE), 1)]

\* Every comment text of the model, scanned once.
AllTexts ==
  Texts \cup Rewritten(PlainTexts, MaxSubstitutions) \cup SharedTexts \cup ThemeTexts
    \cup NormalizeTexts
ScanTable == [t \in AllTexts |-> Scan(t)] @@ <<>>
AuthorTable == [a \in Authors |-> ScanAuthor(a)] @@ <<>>

\* ------------------------------------------------------------------------
\* analyze(): the full pipeline
\* ------------------------------------------------------------------------

SpamSignal(category, signal, weight, matched_text) ==
  [category |-> category, signal |-> signal, weight |-> weight,
   matched_text |-> matched_text]

LegitimacySignal(signal, bonus, matched_text) ==
  [signal |-> signal, bonus |-> bonus, matched_text |-> matched_text]

\* signals.append(x) when the condition holds
When(cond, x) == IF cond THEN <<x>> ELSE <<>>

\* A weight that starts from 0.35 for the first match.
weight_from_base(match_count) ==
  FMin(FAdd(Dec(35, 100), FMulInt(match_count - 1, Dec(8, 100))), Dec(65, 100))

\* A weight without the ceiling.
weight_uncapped(match_count) == FAdd(Dec(35, 100), FMulInt(match_count, Dec(8, 100)))

\* min(0.35 + (match_count * 0.08), 0.65)
crypto_weight(match_count) ==
  FMin(FAdd(Dec(35, 100), FMulInt(match_count, Dec(8, 100))), Dec(65, 100))

Found(m) == m # <<>>

\* Both checks of a pair made, whatever the first finds.
both_checks(found, stronger, weaker) == (IF found THEN stronger ELSE <<>>) \o weaker

\* if match: signals.append(stronger) else: the weaker check of the pair
\* (lines 762-777, 862-876, 880-896).
if_else(found, stronger, weaker) == IF found THEN stronger ELSE weaker

signals_found(f, a, author_name) ==
     When(f.had_obfuscation,
          SpamSignal("OBFUSCATION", "Homoglyph obfuscation detected", Dec(3, 10),
                     Chars("[cyrillic/greek characters]")))
  \o When(Found(f.seed_phrase_scam),
          SpamSignal("SEED_PHRASE_SCAM", "Seed phrase / wallet scam pattern",
                     Dec(75, 100), Group0(f.normalized, f.seed_phrase_scam)))
  \o When(Found(f.crypto_keywords),
          SpamSignal("CRYPTO_SCAM",
                     "Crypto/trading keywords (" \o ToString(f.match_count) \o "x)",
                     crypto_weight(f.match_count), Group0(f.normalized, f.crypto_keywords)))
  \o When(Found(f.financial_promises),
          SpamSignal("FINANCIAL_SCAM", "Financial promises/guarantees", Dec(6, 10),
                     Group0(f.normalized, f.financial_promises)))
  \o if_else(Found(f.platform_redirect),
             <<SpamSignal("PLATFORM_REDIRECT", "Platform redirect link", Dec(55, 100),
                          Group0(f.normalized, f.platform_redirect))>>,
             When(Found(f.contact_solicitation),
                  SpamSignal("CONTACT_SOLICITATION", "Contact solicitation", Dec(45, 100),
                             Group0(f.normalized, f.contact_solicitation))))
  \o When(Found(f.phone_patterns),
          SpamSignal("CONTACT_SOLICITATION", "Phone number detected", Dec(4, 10),
                     Chars("[phone number]")))
  \o When(Found(f.email_pattern),
          SpamSignal("CONTACT_SOLICITATION", "Email address detected", Dec(2, 10),
                     Chars("[email]")))
  \o When(Found(f.fake_pinned),
          SpamSignal("FAKE_PINNED", "Fake pinned comment pattern", Dec(65, 100),
                     Group0(f.normalized, f.fake_pinned)))
  \o (IF author_name # <<>>
      THEN When(a.has_fake_badge,
                SpamSignal("IMPERSONATION", "Fake verification badge in username",
                           Dec(5, 10), Chars("[badge character]")))
        \o When(Found(a.impersonation_suffixes),
                SpamSignal("IMPERSONATION", "Suspicious username suffix", Dec(25, 100),
                           Group0(author_name, a.impersonation_suffixes)))
      ELSE <<>>)
  \o When(Found(f.channel_promotion),
          SpamSignal("CHANNEL_PROMOTION", "Channel/profile promotion", Dec(4, 10),
                     Group0(f.normalized, f.channel_promotion)))
  \o When(Found(f.self_promo_phrases),
          SpamSignal("SELF_PROMOTION", "Self-promotion phrases", Dec(3, 10),
                     Group0(f.normalized, f.self_promo_phrases)))
  \o When(Found(f.book_promotion),
          SpamSignal("BOOK_PROMOTION", "Book/product promotion", Dec(45, 100),
                     Group0(f.normalized, f.book_promotion)))
  \o if_else(Found(f.shortened_urls),
             <<SpamSignal("PHISHING", "Shortened URL (suspicious)", Dec(4, 10),
                          Group0(f.normalized, f.shortened_urls))>>,
             When(Found(f.url_pattern),
                  SpamSignal("SELF_PROMOTION", "URL detected", Dec(15, 100), Chars("[url]"))))
  \o if_else(Found(f.bot_template_markers),
             <<SpamSignal("BOT_PATTERN", "Template markers detected", Dec(7, 10),
                          Group0(f.normalized, f.bot_template_markers))>>,
             When(Found(f.bot_generic_phrases),
                  SpamSignal("BOT_PATTERN", "Generic bot-like phrase", Dec(2, 10),
                             Group0(f.normalized, f.bot_generic_phrases))))
  \o When(Found(f.adult_content),
          SpamSignal("ADULT_CONTENT", "Adult/inappropriate content", Dec(6, 10),
                     Chars("[adult content]")))
  \o When(Found(f.engagement_bait),
          SpamSignal("ENGAGEMENT_BAIT", "Engagement bait", Dec(15, 100),
                     Group0(f.normalized, f.engagement_bait)))

\* The spam signals of analyze(), in the order it appends them.
spam_signals(text, author_name) ==
  signals_found(ScanTable[text], AuthorTable[author_name], author_name)

\* The weights in the order the signals were appended.
Unsorted(ws) == ws

\* sorted(ws), the smallest weight first.
RECURSIVE SortedAsc(_)
SortedAsc(ws) ==
  IF ws = <<>> THEN <<>>
  ELSE LET m == CHOOSE i \in 1..Len(ws) : \A j \in 1..Len(ws) : FLe(ws[i], ws[j])
       IN <<ws[m]>> \o SortedAsc(SubSeq(ws, 1, m - 1) \o SubSeq(ws, m + 1, Len(ws)))

\* sorted(ws, reverse=True)
RECURSIVE SortedDesc(_)
SortedDesc(ws) ==
  IF ws = <<>> THEN <<>>
  ELSE LET m == CHOOSE i \in 1..Len(ws) : \A j \in 1..Len(ws) : FGe(ws[i], ws[j])
       IN <<ws[m]>> \o SortedDesc(SubSeq(ws, 1, m - 1) \o SubSeq(ws, m + 1, Len(ws)))

\* base_score after the terms weights[2..n] are added, the i-th halved
\* i - 1 times.
RECURSIVE Accumulate(_, _, _)
Accumulate(acc, weights, i) ==
  IF i > Len(weights) THEN acc
  ELSE Accumulate(FAdd(acc, FHalve(weights[i], i - 1)), weights, i + 1)

\* Lines 921-933.
base_score_of(signals) ==
  IF signals = <<>> THEN Zero
  ELSE LET weights == SortedDesc([i \in 1..Len(signals) |-> signals[i].weight])
       IN FMin(Accumulate(weights[1], weights, 2), One)

\* The engagement signal of lines 1011-1032.
engagement_capped(like_count, signal_text, raw_bonus, actual_bonus) ==
  LegitimacySignal(
    IF actual_bonus # raw_bonus
    THEN signal_text \o " [capped - high spam signals]" ELSE signal_text,
    actual_bonus,
    Chars(ToString(like_count) \o " likes"))

\* The engagement signal without the cap of lines 1020-1026.
engagement_uncapped(like_count, base_score, signal_text, raw_bonus) ==
  engagement_capped(like_count, signal_text, raw_bonus, raw_bonus)

\* Lines 1020-1026: with a base score of 0.55 or more the bonus is at
\* least -0.10.
engagement_bonus(like_count, base_score, signal_text, raw_bonus) ==
  engagement_capped(like_count, signal_text, raw_bonus,
                    IF FGe(base_score, Dec(55, 100))
                    THEN FMax(raw_bonus, FNeg(Dec(10, 100))) ELSE raw_bonus)

engagement_signal(like_count, base_score) ==
  IF like_count >= 100
  THEN engagement_bonus(like_count, base_score,
                        "High engagement (" \o ToString(like_count) \o " likes)",
                        FNeg(Dec(25, 100)))
  ELSE engagement_bonus(like_count, base_score,
                        "Community validated (" \o ToString(like_count) \o " likes)",
                        FNeg(Dec(10, 100)))

\* A comment of exactly 30 characters counted as short.
short_up_to_30(text_length, signals) == text_length <= 30 /\ Len(signals) = 0

\* Line 994: if text_length < 30 and len(signals) == 0
short_harmless(text_length, signals) == text_length < 30 /\ Len(signals) = 0

\* Line 1002: if text_length > 200 and len(signals) <= 1
long_thoughtful(text_length, signals) == text_length > 200 /\ Len(signals) <= 1

legitimacy_found(f, text, text_length, like_count, signals, base_score) ==
     When(Found(f.timestamp_pattern),
          LegitimacySignal("Video timestamp reference", FNeg(Dec(25, 100)),
                           Group0(text, f.timestamp_pattern)))
  \o When(Found(f.reply_pattern),
          LegitimacySignal("Reply to specific user", FNeg(Dec(15, 100)), Chars("[@username]")))
  \o When(Found(f.question_pattern),
          LegitimacySignal("Asks a question", FNeg(Dec(15, 100)), Chars("[question]")))
  \o When(Found(f.genuine_discussion),
          LegitimacySignal("Genuine discussion", FNeg(Dec(2, 10)),
                           Group0(f.normalized, f.genuine_discussion)))
  \o When(Found(f.balanced_feedback),
          LegitimacySignal("Balanced feedback", FNeg(Dec(1, 10)),
                           Group0(f.normalized, f.balanced_feedback)))
  \o When(Found(f.educational_context),
          LegitimacySignal("Educational context", FNeg(Dec(2, 10)),
                           Group0(f.normalized, f.educational_context)))
  \o When(short_harmless(text_length, signals),
          LegitimacySignal("Short harmless comment", FNeg(Dec(1, 10)), <<>>))
  \o When(long_thoughtful(text_length, signals),
          LegitimacySignal("Long thoughtful comment", FNeg(Dec(15, 100)), <<>>))
  \o When(like_count >= 10, engagement_signal(like_count, base_score))

\* The legitimacy signals of analyze(), in the order it appends them.
legitimacy_signals_of(text, like_count, signals, base_score) ==
  legitimacy_found(ScanTable[text], text, Len(Strip(text)), like_count, signals, base_score)

\* sum() of floats adds from left to right up to Python 3.11 ...
RECURSIVE NaiveSum(_, _, _)
NaiveSum(xs, i, acc) ==
  IF i > Len(xs) THEN acc ELSE NaiveSum(xs, i + 1, FAdd(acc, xs[i]))

\* ... and carries a compensation term (Neumaier) from Python 3.12 on.
\* What the rounding of t = f_result + x lost.
Lost(f_result, x, t) ==
  IF MagCmp(f_result.mag, x.mag) >= 0
  THEN FAdd(FAdd(f_result, FNeg(t)), x)
  ELSE FAdd(FAdd(x, FNeg(t)), f_result)

RECURSIVE NeumaierSum(_, _, _, _)
NeumaierSum(xs, i, f_result, c) ==
  IF i > Len(xs) THEN (IF c # Zero THEN FAdd(f_result, c) ELSE f_result)
  ELSE NeumaierSum(xs, i + 1, FAdd(f_result, xs[i]),
                   FAdd(c, Lost(f_result, xs[i], FAdd(f_result, xs[i]))))

\* sum(ls.bonus for ls in legitimacy_signals) under the interpreter interp.
float_sum(interp, bonuses) ==
  IF interp = "3.12" THEN NeumaierSum(bonuses, 1, Zero, Zero) ELSE NaiveSum(bonuses, 1, Zero)

\* The bonuses taken as credit: the sum with its sign turned.
adjustment_negated(interp, legitimacy_signals) ==
  FNeg(float_sum(interp, [i \in 1..Len(legitimacy_signals) |-> legitimacy_signals[i].bonus]))

\* adjustment = sum(ls.bonus for ls in legitimacy_signals)
adjustment_of(interp, legitimacy_signals) ==
  float_sum(interp, [i \in 1..Len(legitimacy_signals) |-> legitimacy_signals[i].bonus])

\* The adjusted score without the clamp.
unclamped_score(base_score, adjustment) == FAdd(base_score, adjustment)

\* max(0.0, min(1.0, base_score + adjustment))
final_score_of(base_score, adjustment) ==
  FMax(Zero, FMin(One, FAdd(base_score, adjustment)))

\* round(final_score, 3), the float nearest to the rounded decimal.
rounded(final_score) ==
  IF final_score.neg THEN FNeg(Dec(Round3(final_score), 1000))
  ELSE Dec(Round3(final_score), 1000)

SpamResult(is_spam, score, threshold, signals, legitimacy_signals, categories, normalized_text, had_obfuscation) ==
  [is_spam |-> is_spam, score |-> score, threshold |-> threshold,
   signals |-> signals, legitimacy_signals |-> legitimacy_signals,
   categories |-> categories, normalized_text |-> normalized_text,
   had_obfuscation |-> had_obfuscation]

\* max(signals, key=lambda s: s.weight): the position of the first signal
\* that no earlier one equals or exceeds; best is the position kept so far.
RECURSIVE MaxByWeight(_, _, _)
MaxByWeight(signals, i, best) ==
  IF i > Len(signals) THEN best
  ELSE IF FGe(signals[best].weight, signals[i].weight)
  THEN MaxByWeight(signals, i + 1, best)
  ELSE MaxByWeight(signals, i + 1, i)

\* A maximum that keeps the last of several equal weights.
last_maximum(self) ==
  IF self.signals = <<>> THEN "None"
  ELSE LET top == CHOOSE i \in 1..Len(self.signals) :
                    /\ \A j \in 1..Len(self.signals) :
                         FGe(self.signals[i].weight, self.signals[j].weight)
                    /\ \A j \in (i + 1)..Len(self.signals) :
                         self.signals[j].weight # self.signals[i].weight
       IN self.signals[top].category

\* SpamResult.primary_category, "None" for None.
primary_category(self) ==
  IF self.signals = <<>> THEN "None"
  ELSE self.signals[MaxByWeight(self.signals, 2, 1)].category

\* list(set(s.category for s in signals)), whose order is unspecified.
categories_of(signals) == {signals[i].category : i \in 1..Len(signals)}

\* A result whose verdict compares the rounded score with the threshold.
result_on_rounded(self, f, signals, legitimacy_signals, final_score) ==
  SpamResult(FGe(rounded(final_score), self.threshold), rounded(final_score),
             self.threshold, signals, legitimacy_signals, categories_of(signals),
             f.normalized, f.had_obfuscation)

\* Lines 1038-1053.
final_result(self, f, signals, legitimacy_signals, final_score) ==
  SpamResult(FGe(final_score, self.threshold), rounded(final_score), self.threshold,
             signals, legitimacy_signals, categories_of(signals),
             f.normalized, f.had_obfuscation)

\* Lines 1044-1053.
scored_result(self, text, signals, legitimacy_signals, final_score) ==
  final_result(self, ScanTable[text], signals, legitimacy_signals, final_score)

\* not text, without the test of text.strip()
is_zero_length(text) == text = <<>>

\* not text or not text.strip()
is_empty_input(text) == text = <<>> \/ Strip(text) = <<>>

\* Lines 662-671.
empty_result(self) ==
  SpamResult(FALSE, Zero, self.threshold, <<>>, <<>>, {}, <<>>, FALSE)

\* Lines 675-688.
whitelist_result(self, text) ==
  SpamResult(FALSE, Zero, self.threshold, <<>>,
             <<LegitimacySignal("Matched whitelist pattern", FNeg(One),
                                Chars("[whitelisted]"))>>,
             {}, text, FALSE)

\* Lines 693-707.
blacklist_result(self, text, blacklist_match) ==
  SpamResult(TRUE, One, self.threshold,
             <<SpamSignal("BOT_PATTERN", "Matched blacklist pattern", One, blacklist_match)>>,
             <<>>, {"BOT_PATTERN"}, text, FALSE)

\* Lines 709-1053 in one piece.
pipeline_scored(self, interp, text, signals, base_score, legitimacy_signals) ==
  scored_result(self, text, signals, legitimacy_signals,
                final_score_of(base_score, adjustment_of(interp, legitimacy_signals)))

pipeline_from_base(self, interp, text, like_count, signals, base_score) ==
  pipeline_scored(self, interp, text, signals, base_score,
                  legitimacy_signals_of(text, like_count, signals, base_score))

pipeline_from_signals(self, interp, text, like_count, signals) ==
  pipeline_from_base(self, interp, text, like_count, signals, base_score_of(signals))

full_pipeline(self, interp, text, author_name, like_count) ==
  pipeline_from_signals(self, interp, text, like_count, spam_signals(text, author_name))

\* analyze(text, author_name, like_count) run from entry to return under
\* the interpreter interp.
analyze(self, interp, text, author_name, like_count) ==
  IF is_empty_input(text) THEN empty_result(self)
  ELSE IF check_whitelist(self, text) THEN whitelist_result(self, text)
  ELSE IF check_blacklist(self, text) # <<>>
  THEN blacklist_result(self, text, check_blacklist(self, text))
  ELSE full_pipeline(self, interp, text, author_name, like_count)

\* ------------------------------------------------------------------------
\* filter_spam_batch(): dictionaries, int() and the annotation
\* ------------------------------------------------------------------------

\* Lines 245-252: the first three signal names joined by "; ".
RECURSIVE JoinNames(_, _, _)
JoinNames(signals, i, last) ==
  IF i > last THEN ""
  ELSE IF i = last THEN signals[i].signal
  ELSE signals[i].signal \o "; " \o JoinNames(signals, i + 1, last)

reason(self) ==
  IF self.signals = <<>> THEN "No spam signals detected"
  ELSE JoinNames(self.signals, 1, Min(3, Len(self.signals)))

\* The values a comment dictionary holds, each with its Python type.
PyStr(chars) == [type |-> "str", value |-> chars]
PyInt(n) == [type |-> "int", value |-> n]
PyFloat(x) == [type |-> "float", value |-> x]
PyNone == [type |-> "NoneType", value |-> 0]

\* dict.get(key, default)
Get(comment, key, default) == IF key \in DOMAIN comment THEN comment[key] ELSE default

\* int(s) of a string: blanks around it are dropped, one sign may lead,
\* then decimal digits with single underscores between them; anything else
\* is a ValueError.
Unsigned(chars) ==
  IF chars # <<>> /\ chars[1] \in {"+", "-"} THEN SubSeq(chars, 2, Len(chars)) ELSE chars

IsIntLiteral(chars) ==
  /\ Unsigned(Strip(chars)) # <<>>
  /\ \A i \in 1..Len(Unsigned(Strip(chars))) :
       \/ Unsigned(Strip(chars))[i] \in Digits
       \/ /\ Unsigned(Strip(chars))[i] = "_"
          /\ 1 < i /\ i < Len(Unsigned(Strip(chars)))
          /\ Unsigned(Strip(chars))[i - 1] \in Digits
          /\ Unsigned(Strip(chars))[i + 1] \in Digits

DigitValue(c) == CHOOSE n \in 0..9 : ToString(n) = c

RECURSIVE DigitsValue(_, _, _)
DigitsValue(chars, i, acc) ==
  IF i > Len(chars) THEN acc
  ELSE IF chars[i] = "_" THEN DigitsValue(chars, i + 1, acc)
  ELSE DigitsValue(chars, i + 1, 10 * acc + DigitValue(chars[i]))

IntOf(chars) ==
  IF Strip(chars)[1] = "-" THEN 0 - DigitsValue(Unsigned(Strip(chars)), 1, 0)
  ELSE DigitsValue(Unsigned(Strip(chars)), 1, 0)

\* The default keys of filter_spam_batch().
text_key == "Comment Text"
author_key == "Author Name"
likes_key == "Comment Likes"

\* Lines 1160-1165: a like count that is a string is converted with int(),
\* and counts as 0 when int() raises ValueError.
likes_of(comment) ==
  IF Get(comment, likes_key, PyInt(0)).type = "str"
  THEN IF IsIntLiteral(Get(comment, likes_key, PyInt(0)).value)
       THEN PyInt(IntOf(Get(comment, likes_key, PyInt(0)).value))
       ELSE PyInt(0)
  ELSE Get(comment, likes_key, PyInt(0))

\* detector.analyze(text, author, likes) for a like count of any type: the
\* comparison like_count >= 100 of line 1011 raises TypeError for None, and
\* is reached only by the full pipeline.
analyze_any(self, interp, text, author_name, likes) ==
  IF likes.type = "int" THEN analyze(self, interp, text, author_name, likes.value)
  ELSE IF is_empty_input(text) \/ check_whitelist(self, text)
          \/ check_blacklist(self, text) # <<>>
  THEN analyze(self, interp, text, author_name, 0)
  ELSE [raised |-> "TypeError"]

\* Lines 1156-1167: the three fields of the comment are read and analysed.
analyze_comment(self, interp, comment) ==
  analyze_any(self, interp, Get(comment, text_key, PyStr(<<>>)).value,
              Get(comment, author_key, PyStr(<<>>)).value, likes_of(comment))

\* Lines 1170-1173: the comment with the two keys spam_score and
\* spam_signals set.
annotated(comment, r) ==
  [k \in DOMAIN comment \cup {"spam_score", "spam_signals"} |->
     IF k = "spam_score" THEN PyFloat(r.score)
     ELSE IF k = "spam_signals"
     THEN [type |-> "str", value |-> IF r.signals # <<>> THEN reason(r) ELSE ""]
     ELSE comment[k]]

\* The two keys written into the caller's dictionary itself.
keep_in_place(b, comment, r) ==
  IF b.include_scores
  THEN [b EXCEPT !.comments[b.position] = annotated(comment, r),
                 !.filtered = Append(@, annotated(comment, r)),
                 !.position = @ + 1]
  ELSE [b EXCEPT !.filtered = Append(@, comment), !.position = @ + 1]

\* Lines 1169-1174: a comment that is not spam is appended to the list;
\* with include_scores it is a copy of the comment that gets the two keys.
keep(b, comment, r) ==
  IF b.include_scores
  THEN [b EXCEPT !.filtered = Append(@, annotated(comment, r)), !.position = @ + 1]
  ELSE [b EXCEPT !.filtered = Append(@, comment), !.position = @ + 1]

\* Lines 1155-1174: one turn of the loop over the comments.
loop_body(b, comment, r) ==
  IF "raised" \in DOMAIN r THEN [b EXCEPT !.pc = "raised"]
  ELSE IF ~r.is_spam THEN keep(b, comment, r)
  ELSE [b EXCEPT !.position = @ + 1]

\* ------------------------------------------------------------------------
\* State
\* ------------------------------------------------------------------------

\* The threads that call analyze() on the one detector.
Threads == {1, 2}

VARIABLES
  interpreter,    \* the Python that runs the program: "3.11" or "3.12"
  detector,       \* the SpamDetector instance: threshold, phrase lists, compiled lists
  pc,             \* per thread: where its call of analyze() stands
  call,           \* per thread: the arguments text, author_name, like_count
  frame,          \* per frame: the locals signals, legitimacy_signals, base_score,
                  \* final_score
  result,         \* per thread: what the call returned
  executed,       \* per thread: the returning branches the call entered
  original,       \* per thread: the result for the text before it was rewritten
  substitutions,  \* per thread: how often the text was rewritten
  batch,          \* the call of filter_spam_batch(): its arguments, its loop, its list
  init_args,      \* the arguments SpamDetector() was constructed with
  manager,        \* the SettingsManager: keyring, settings file, last save and load
  extractor,      \* the call of fetch_comments(): its arguments, pages and lists
  app             \* the App window: fetch state, worker thread, result lists

\* The variables of the spam detector and its callers.
detector_vars ==
  <<interpreter, detector, pc, call, frame, result, executed, original, substitutions, batch,
    init_args>>

vars == <<detector_vars, manager, extractor, app>>

NoResult == [none |-> TRUE]
\* The types analyze() declares for text, author_name and like_count.
Declared == [text |-> "str", author_name |-> "str", like_count |-> "int"]

NoCall == [text |-> <<>>, author_name |-> <<>>, like_count |-> 0, types |-> Declared]
\* signals: List[SpamSignal] = []; legitimacy_signals: List[LegitimacySignal] = []
NewFrame ==
  [signals |-> <<>>, legitimacy_signals |-> <<>>, base_score |-> Zero, final_score |-> Zero]

\* No call of filter_spam_batch() is under way.
NoBatch ==
  [pc |-> "idle", comments |-> <<>>, given |-> <<>>, filtered |-> <<>>, position |-> 1,
   include_scores |-> FALSE, detector |-> SpamDetector(Dec(1, 2), <<>>, <<>>)]

\* The settings a user can change that the model keeps: the API key and one
\* of the other settings.
ApiKeys == {"", "key-1", "key-2"}
AppSettings == [api_key : ApiKeys, min_likes : {0, 5}]

\* AppSettings(): api_key = "", min_likes = 0.
DefaultSettings == [api_key |-> "", min_likes |-> 0]

\* No settings file on disk; no password in the keyring.
NoFile == [exists |-> FALSE, data |-> [min_likes |-> 0]]
NoPassword == ""

NoSave == [done |-> FALSE, settings |-> DefaultSettings, returned |-> FALSE]
NoLoad == [done |-> FALSE, settings |-> DefaultSettings]

\* core/settings.py before it is imported.
NewManager ==
  [pc |-> "unloaded", use_keyring |-> FALSE, keyring |-> NoPassword, file |-> NoFile,
   saved |-> NoSave, loaded |-> NoLoad]

\* The arguments of fetch_comments(): max_results and filter_spam, and the
\* other filters off, one at a time, and all together.  A max_results of 0
\* is None: 'if max_results' takes both for no limit.  The dates are None
\* (the empty string) or YYYY-MM-DD.
NoFilters ==
  [exclude_creator |-> FALSE, min_likes |-> 0, date_from |-> <<>>, date_to |-> <<>>,
   filter_words |-> <<>>]

FilterArgs ==
  {NoFilters,
   [NoFilters EXCEPT !.exclude_creator = TRUE],
   [NoFilters EXCEPT !.min_likes = 5],
   [NoFilters EXCEPT !.date_from = Chars("2024-01-01")],
   [NoFilters EXCEPT !.date_to = Chars("2023-12-31")],
   [NoFilters EXCEPT !.filter_words = <<Chars("DM"), Chars("imo")>>],
   [exclude_creator |-> TRUE, min_likes |-> 5, date_from |-> Chars("2024-01-01"),
    date_to |-> Chars("2024-12-31"), filter_words |-> <<Chars("DM"), Chars("imo")>>]}

MaxPages == 2
PageSize == 2

FetchArgs == [max_results : 0..PageSize, filter_spam : BOOLEAN, filters : FilterArgs]

\* No call of fetch_comments() is under way.
NoFetch ==
  [pc |-> "idle",
   args |-> [max_results |-> 0, filter_spam |-> FALSE, filters |-> NoFilters],
   comments |-> <<>>, spam_comments |-> <<>>, responses |-> <<>>]

\* The worker threads that can exist at a time, and the URLs of a fetch.
Workers == {1, 2}
MaxUrls == 3

\* FetchState(): is_fetching = False, cancel_event not set.
FetchState == [is_fetching |-> FALSE, cancel_event |-> FALSE]

\* No thread in this place.
NoWorker == [pc |-> "none", i |-> 0, total_videos |-> 0, comments |-> 0, spam |-> 0]

\* The last step did not touch the result lists.
NoAccess == [by |-> "none", locked |-> TRUE, looping |-> FALSE]

\* App() after __init__: the window is built and the main loop runs.
\* after is the queue of the callbacks given to self.after(0, ...); modal
\* is the dialog that is open; handler is what took the last step, a handler
\* of the main loop or _fetch_thread, access what it did to the result lists,
\* and begun counts the process_video calls begun since cancellation was
\* requested.
NewApp ==
  [fetch_state |-> FetchState, data_lock |-> "free",
   all_metadata |-> <<>>, all_comments |-> <<>>, all_spam |-> <<>>,
   export_enabled |-> FALSE, after |-> <<>>, modal |-> "none",
   workers |-> [w \in Workers |-> NoWorker],
   handler |-> "__init__", access |-> NoAccess, begun |-> 0]

\* Locals kept on the detector instead: every call uses the one frame.
SharedFrame(t) == 1

\* The locals of a call live in the frame of that call.
Frame(t) == t

\* The arguments of SpamDetector(threshold, blacklist_patterns, whitelist_patterns).
ConstructorArgs ==
  [threshold : ThresholdArgs, blacklist_patterns : BlacklistArgs,
   whitelist_patterns : WhitelistArgs]

\* sum() of floats adds them one by one up to Python 3.11 and with a
\* compensation term from 3.12 on.
Interpreters == {"3.11", "3.12"}

Init ==
  /\ interpreter \in Interpreters
  /\ init_args \in ConstructorArgs
  /\ detector = SpamDetector(init_args.threshold, init_args.blacklist_patterns,
                             init_args.whitelist_patterns)
  /\ pc = [t \in Threads |-> "idle"]
  /\ call = [t \in Threads |-> NoCall]
  /\ frame = [t \in Threads |-> NewFrame]
  /\ result = [t \in Threads |-> NoResult]
  /\ executed = [t \in Threads |-> {}]
  /\ original = [t \in Threads |-> NoResult]
  /\ substitutions = [t \in Threads |-> 0]
  /\ batch = NoBatch
  /\ manager = NewManager
  /\ extractor = NoFetch
  /\ app = NewApp

\* Lines 645-658: analyze(text, author_name, like_count) is entered and its
\* two local lists are created.
Enter(t, new_text, new_author, new_likes) ==
  /\ pc' = [pc EXCEPT ![t] = "check_empty"]
  /\ call' = [call EXCEPT ![t] = [text |-> new_text, author_name |-> new_author,
                                  like_count |-> new_likes, types |-> Declared]]
  /\ frame' = [frame EXCEPT ![Frame(t)] = NewFrame]
  /\ result' = [result EXCEPT ![t] = NoResult]
  /\ executed' = [executed EXCEPT ![t] = {}]
  /\ UNCHANGED <<manager, extractor, app, init_args, batch, interpreter, detector>>

Call(t, texts, authors, likes) ==
  /\ pc[t] = "idle"
  /\ \E new_text \in texts, new_author \in authors, new_likes \in likes :
       Enter(t, new_text, new_author, new_likes)
  /\ original' = [original EXCEPT ![t] = NoResult]
  /\ substitutions' = [substitutions EXCEPT ![t] = 0]

\* An operation on a value of a type without it raises; the exception
\* leaves analyze().
Raise(t, exception) ==
  /\ pc' = [pc EXCEPT ![t] = "raised"]
  /\ result' = [result EXCEPT ![t] = [raised |-> exception]]
  /\ executed' = executed

\* return SpamResult(...)
Return(t, path, r) ==
  /\ pc' = [pc EXCEPT ![t] = "done"]
  /\ result' = [result EXCEPT ![t] = r]
  /\ executed' = [executed EXCEPT ![t] = @ \cup {path}]

\* Lines 660-671: empty input.
CheckEmpty(t) ==
  /\ pc[t] = "check_empty"
  /\ IF call[t].types.text = "int"
     THEN Raise(t, "AttributeError")
     ELSE IF call[t].types.text = "NoneType" \/ is_empty_input(call[t].text)
     THEN Return(t, "empty", empty_result(detector))
     ELSE /\ pc' = [pc EXCEPT ![t] = "check_whitelist"]
          /\ UNCHANGED <<result, executed>>
  /\ UNCHANGED <<manager, extractor, app, init_args, batch, interpreter, detector, call, frame, original, substitutions>>

\* Lines 673-688: the whitelist bypasses the detection.
CheckWhitelist(t) ==
  /\ pc[t] = "check_whitelist"
  /\ IF check_whitelist(detector, call[t].text)
     THEN Return(t, "whitelist", whitelist_result(detector, call[t].text))
     ELSE /\ pc' = [pc EXCEPT ![t] = "check_blacklist"]
          /\ UNCHANGED <<result, executed>>
  /\ UNCHANGED <<manager, extractor, app, init_args, batch, interpreter, detector, call, frame, original, substitutions>>

\* The blacklist branch without its return: the call goes on to the
\* detection.
BlacklistFallsThrough(t, blacklist_match) ==
  /\ pc' = [pc EXCEPT ![t] = "detect"]
  /\ result' = result
  /\ executed' = [executed EXCEPT ![t] =
                    IF blacklist_match # <<>> THEN @ \cup {"blacklist"} ELSE @]

\* Lines 692-707: a blacklist match returns at once.
Blacklisted(t, blacklist_match) ==
  IF blacklist_match # <<>>
  THEN Return(t, "blacklist", blacklist_result(detector, call[t].text, blacklist_match))
  ELSE /\ pc' = [pc EXCEPT ![t] = "detect"]
       /\ UNCHANGED <<result, executed>>

\* Lines 690-707: the blacklist classifies at once.
CheckBlacklist(t) ==
  /\ pc[t] = "check_blacklist"
  /\ Blacklisted(t, check_blacklist(detector, call[t].text))
  /\ UNCHANGED <<manager, extractor, app, init_args, batch, interpreter, detector, call, frame, original, substitutions>>

\* Lines 709-915: normalization and the spam signals.
Detect(t) ==
  /\ pc[t] = "detect"
  /\ IF call[t].types.author_name = "int"
     THEN Raise(t, "TypeError") /\ frame' = frame
     ELSE /\ frame' = [frame EXCEPT ![Frame(t)].signals =
                        @ \o spam_signals(call[t].text, call[t].author_name)]
          /\ executed' = [executed EXCEPT ![t] = @ \cup {"pipeline"}]
          /\ pc' = [pc EXCEPT ![t] = "score"]
          /\ result' = result
  /\ UNCHANGED <<manager, extractor, app, init_args, batch, interpreter, detector, call, original, substitutions>>

\* Lines 1034-1053: the final score and the result.
Conclude(t, sigs, base, legit, final) ==
  /\ frame' = [frame EXCEPT ![Frame(t)] =
                 [signals |-> sigs, legitimacy_signals |-> legit, base_score |-> base,
                  final_score |-> final]]
  /\ Return(t, "pipeline", scored_result(detector, call[t].text, sigs, legit, final))

\* Lines 1038-1039: adjustment and final_score.
Adjust(t, sigs, base, legit) ==
  Conclude(t, sigs, base, legit, final_score_of(base, adjustment_of(interpreter, legit)))

\* Lines 935-1032: the legitimacy signals.
Finalize(t, sigs, base) ==
  Adjust(t, sigs, base,
         frame[Frame(t)].legitimacy_signals
           \o legitimacy_signals_of(call[t].text, call[t].like_count, sigs, base))

\* Lines 917-1053: base score, legitimacy signals, final score.
Score(t) ==
  /\ pc[t] = "score"
  /\ IF call[t].types.like_count # "int"
     THEN Raise(t, "TypeError") /\ frame' = frame
     ELSE Finalize(t, frame[Frame(t)].signals, base_score_of(frame[Frame(t)].signals))
  /\ UNCHANGED <<manager, extractor, app, init_args, batch, interpreter, detector, call, original, substitutions>>

\* The commenter replaces one more Latin letter of the analysed comment by
\* a look-alike and the comment is analysed again.
Obfuscate(t) ==
  /\ pc[t] = "done"
  /\ substitutions[t] < MaxSubstitutions
  /\ \E new_text \in Substituted(call[t].text) :
       Enter(t, new_text, call[t].author_name, call[t].like_count)
  /\ original' = [original EXCEPT ![t] = IF substitutions[t] = 0 THEN result[t] ELSE @]
  /\ substitutions' = [substitutions EXCEPT ![t] = @ + 1]

\* The caller has used the result; the frame of the call is gone.
Finish(t) ==
  /\ pc[t] = "done"
  /\ pc' = [pc EXCEPT ![t] = "idle"]
  /\ call' = [call EXCEPT ![t] = NoCall]
  /\ frame' = [frame EXCEPT ![Frame(t)] = NewFrame]
  /\ result' = [result EXCEPT ![t] = NoResult]
  /\ executed' = [executed EXCEPT ![t] = {}]
  /\ original' = [original EXCEPT ![t] = NoResult]
  /\ substitutions' = [substitutions EXCEPT ![t] = 0]
  /\ UNCHANGED <<manager, extractor, app, init_args, batch, interpreter, detector>>

Step(t) ==
  \/ CheckEmpty(t)
  \/ CheckWhitelist(t)
  \/ CheckBlacklist(t)
  \/ Detect(t)
  \/ Score(t)
  \/ Finish(t)

\* One caller, every comment.
Next ==
  \/ Call(1, Texts, Authors, LikeCounts)
  \/ Step(1)

Spec == Init /\ [][Next]_vars

\* The argument types a caller can pass that are not all the declared
\* ones: None or a number as text, None or a number as author_name, None or
\* a string as like_count.
Undeclared ==
  [text : {"str", "NoneType", "int"}, author_name : {"str", "NoneType", "int"},
   like_count : {"int", "NoneType", "str"}] \ {Declared}

\* A call of analyze() with such arguments; an argument that is no text or
\* no number is known by its type alone.
CallUntyped(t) ==
  /\ pc[t] = "idle"
  /\ \E types \in Undeclared :
       \E new_text \in (IF types.text = "str" THEN SharedTexts \cup BlankTexts ELSE {<<>>}),
          new_author \in (IF types.author_name = "str" THEN {<<>>, Chars("x vip")} ELSE {<<>>}),
          new_likes \in (IF types.like_count = "int" THEN {0, 100} ELSE {0}) :
         call' = [call EXCEPT ![t] = [text |-> new_text, author_name |-> new_author,
                                      like_count |-> new_likes, types |-> types]]
  /\ pc' = [pc EXCEPT ![t] = "check_empty"]
  /\ frame' = [frame EXCEPT ![Frame(t)] = NewFrame]
  /\ result' = [result EXCEPT ![t] = NoResult]
  /\ executed' = [executed EXCEPT ![t] = {}]
  /\ UNCHANGED <<manager, extractor, app, init_args, batch, interpreter, detector, original, substitutions>>

\* The exception reaches the caller; the frame of the call is gone.
Propagate(t) ==
  /\ pc[t] = "raised"
  /\ pc' = [pc EXCEPT ![t] = "idle"]
  /\ call' = [call EXCEPT ![t] = NoCall]
  /\ frame' = [frame EXCEPT ![Frame(t)] = NewFrame]
  /\ result' = [result EXCEPT ![t] = NoResult]
  /\ executed' = [executed EXCEPT ![t] = {}]
  /\ UNCHANGED <<manager, extractor, app, init_args, batch, interpreter, detector, original, substitutions>>

\* One caller who passes arguments of other types than the declared ones.
NextUntyped ==
  \/ CallUntyped(1)
  \/ Step(1)
  \/ Propagate(1)

SpecUntyped == Init /\ [][NextUntyped]_vars

\* One caller who rewrites the comments with look-alike letters.
NextObf ==
  \/ Call(1, PlainTexts, {<<>>}, {0})
  \/ Obfuscate(1)
  \/ Step(1)

SpecObf == Init /\ [][NextObf]_vars

\* Two threads on the one detector.
NextConc ==
  \E t \in Threads :
    \/ Call(t, SharedTexts, {<<>>}, {0, 100})
    \/ Step(t)

SpecConc == Init /\ [][NextConc]_vars

\* The longest list of comments passed to filter_spam_batch().
MaxBatch == 2

\* The comment dictionaries of the caller: with all three keys or some of
\* them, the like count a number, a string or None.
BatchComments ==
  { (text_key :> PyStr(Chars("btc xxx"))) @@ (author_key :> PyStr(<<>>))
      @@ (likes_key :> PyStr(Chars("100"))),
    (text_key :> PyStr(Chars("btc xxx"))) @@ (author_key :> PyStr(Chars("x vip")))
      @@ (likes_key :> PyStr(Chars(" x"))),
    (text_key :> PyStr(Chars("dm"))) @@ (author_key :> PyStr(<<>>)) @@ (likes_key :> PyInt(0)),
    (text_key :> PyStr(Chars("imo ok?"))) @@ (likes_key :> PyStr(Chars(" 1_0 "))),
    (author_key :> PyStr(Chars("x vip"))) @@ (likes_key :> PyNone),
    (text_key :> PyStr(Chars("eth"))) @@ (likes_key :> PyNone) }

RECURSIVE ListsOf(_, _)
ListsOf(items, n) ==
  IF n = 0 THEN {<<>>}
  ELSE ListsOf(items, n - 1)
         \cup {Append(l, c) : l \in {m \in ListsOf(items, n - 1) : Len(m) = n - 1}, c \in items}

\* Lines 1130-1153: filter_spam_batch(comments, threshold=..., include_scores=...)
\* is called; it builds its own detector and an empty list.
BatchCall ==
  /\ batch.pc = "idle"
  /\ \E comments \in ListsOf(BatchComments, MaxBatch), threshold \in ThresholdArgs,
        include_scores \in BOOLEAN :
       batch' = [pc |-> "loop", comments |-> comments, given |-> comments,
                 filtered |-> <<>>, position |-> 1, include_scores |-> include_scores,
                 detector |-> SpamDetector(threshold, <<>>, <<>>)]
  /\ UNCHANGED <<manager, extractor, app, init_args, interpreter, detector, pc, call, frame, result, executed,
                 original, substitutions>>

\* Lines 1155-1174: the next comment is analysed and kept or dropped.
BatchStep ==
  /\ batch.pc = "loop"
  /\ batch.position <= Len(batch.comments)
  /\ batch' = loop_body(batch, batch.comments[batch.position],
                        analyze_comment(batch.detector, interpreter,
                                        batch.comments[batch.position]))
  /\ UNCHANGED <<manager, extractor, app, init_args, interpreter, detector, pc, call, frame, result, executed,
                 original, substitutions>>

\* Line 1176: return filtered
BatchReturn ==
  /\ batch.pc = "loop"
  /\ batch.position > Len(batch.comments)
  /\ batch' = [batch EXCEPT !.pc = "returned"]
  /\ UNCHANGED <<manager, extractor, app, init_args, interpreter, detector, pc, call, frame, result, executed,
                 original, substitutions>>

\* The caller has the list, or the exception, and may call again.
BatchDone ==
  /\ batch.pc \in {"returned", "raised"}
  /\ batch' = NoBatch
  /\ UNCHANGED <<manager, extractor, app, init_args, interpreter, detector, pc, call, frame, result, executed,
                 original, substitutions>>

\* One caller whose comments try the single checks.
NextThemes ==
  \/ Call(1, ThemeTexts, {<<>>}, {0, 100})
  \/ Step(1)

SpecThemes == Init /\ [][NextThemes]_vars

\* One caller whose comments try the steps of normalize_text().
NextNormalize ==
  \/ Call(1, NormalizeTexts, {<<>>}, {0})
  \/ Step(1)

SpecNormalize == Init /\ [][NextNormalize]_vars

\* One caller of filter_spam_batch().
NextBatch ==
  \/ BatchCall
  \/ BatchStep
  \/ BatchReturn
  \/ BatchDone

SpecBatch == Init /\ [][NextBatch]_vars

\* ------------------------------------------------------------------------
\* core/settings.py: SettingsManager
\* ------------------------------------------------------------------------

\* AppSettings.to_dict(include_api_key)
to_dict(self, include_api_key) ==
  IF include_api_key THEN [api_key |-> self.api_key, min_likes |-> self.min_likes]
  ELSE [min_likes |-> self.min_likes]

\* data.get('api_key', '')
stored_key(data) == IF "api_key" \in DOMAIN data THEN data.api_key ELSE ""

\* AppSettings.from_dict(data)
from_dict(data) == [api_key |-> stored_key(data), min_likes |-> data.min_likes]

\* _save_api_key(api_key): the password in the keyring afterwards;
\* set_password_ok tells whether keyring.set_password() works.
save_api_key(self, api_key, set_password_ok) ==
  IF api_key = "" THEN self.keyring
  ELSE IF self.use_keyring /\ set_password_ok THEN api_key
  ELSE self.keyring

\* _load_api_key(); get_password_ok tells whether keyring.get_password()
\* works.  None is the empty string: load() tests the key for truth only.
load_api_key(self, get_password_ok) ==
  IF self.use_keyring /\ get_password_ok /\ self.keyring # NoPassword THEN self.keyring
  ELSE IF self.file.exists THEN stored_key(self.file.data)
  ELSE ""

\* load(): the settings of the file, or the defaults, with the loaded key.
load(self, get_password_ok) ==
  LET settings == IF self.file.exists THEN from_dict(self.file.data) ELSE DefaultSettings
      api_key == load_api_key(self, get_password_ok)
  IN IF api_key # "" THEN [settings EXCEPT !.api_key = api_key] ELSE settings

\* Lines 24-33: import keyring works or raises ImportError; then
\* SettingsManager() is constructed.
Import ==
  /\ manager.pc = "unloaded"
  /\ \E KEYRING_AVAILABLE \in BOOLEAN :
       manager' = [NewManager EXCEPT !.pc = "ready", !.use_keyring = KEYRING_AVAILABLE]
  /\ UNCHANGED <<detector_vars, extractor, app>>

\* save(settings): the key goes to the keyring, the other settings to the
\* file, with the key when the keyring is not in use; a failure to write the
\* file leaves it as it was and returns False.
Save ==
  /\ manager.pc = "ready"
  /\ \E settings \in AppSettings, set_password_ok \in BOOLEAN, write_ok \in BOOLEAN :
       manager' =
         [manager EXCEPT
            !.keyring = save_api_key(manager, settings.api_key, set_password_ok),
            !.file = IF write_ok
                     THEN [exists |-> TRUE,
                           data |-> to_dict(settings, ~manager.use_keyring)]
                     ELSE @,
            !.saved = [done |-> TRUE, settings |-> settings, returned |-> write_ok],
            !.loaded = NoLoad]
  /\ UNCHANGED <<detector_vars, extractor, app>>

\* load()
Load ==
  /\ manager.pc = "ready"
  /\ \E get_password_ok \in BOOLEAN :
       manager' = [manager EXCEPT
                     !.loaded = [done |-> TRUE, settings |-> load(manager, get_password_ok)]]
  /\ UNCHANGED <<detector_vars, extractor, app>>

\* delete_api_key(): the password leaves the keyring unless the keyring
\* fails.
DeleteApiKey ==
  /\ manager.pc = "ready"
  /\ \E delete_password_ok \in BOOLEAN :
       manager' = [manager EXCEPT
                     !.keyring = IF manager.use_keyring /\ delete_password_ok
                                 THEN NoPassword ELSE @,
                     !.saved = NoSave,
                     !.loaded = NoLoad]
  /\ UNCHANGED <<detector_vars, extractor, app>>

NextSettings ==
  \/ Import
  \/ Save
  \/ Load
  \/ DeleteApiKey

SpecSettings == Init /\ [][NextSettings]_vars

\* ------------------------------------------------------------------------
\* extractor.py: YouTubeCommentExtractor.fetch_comments
\* ------------------------------------------------------------------------

\* The channel of the video's creator, as process_video() passes it.
creator_channel_id == "UC-creator"

\* The items of a commentThreads page: a harmless and a spam comment of a
\* viewer, recent and liked, and a harmless and a spam comment of the
\* creator, older and without likes.
Item(text, author_channel_id, like_count, published_at) ==
  [text |-> text, author_name |-> <<>>, author_channel_id |-> author_channel_id,
   like_count |-> like_count, published_at |-> published_at]

Items ==
  {Item(Chars("imo ok?"), "UC-viewer", 9, Chars("2024-05-01T10:00:00Z")),
   Item(Chars("dm xxx"), "UC-viewer", 9, Chars("2024-05-01T10:00:00Z")),
   Item(Chars("ok?"), "UC-creator", 0, Chars("2023-12-31T23:59:59Z")),
   Item(Chars("xxx"), "UC-creator", 0, Chars("2023-12-31T23:59:59Z"))}

\* The pages the API may answer with: up to PageSize items.
Pages == UNION {[1..n -> Items] : n \in 0..PageSize}

\* _parse_comment(item, video_id, creator_channel_id); source tells the
\* page and the place on it the item came from.
parse_comment(item, creator, source) ==
  [text |-> item.text, author_name |-> item.author_name,
   published_at |-> item.published_at, like_count |-> item.like_count,
   is_creator |-> IF creator # "" THEN item.author_channel_id = creator ELSE FALSE,
   source |-> source]

\* _create_spam_comment(comment, result)
create_spam_comment(comment, r) ==
  [text |-> comment.text, author_name |-> comment.author_name,
   published_at |-> comment.published_at, like_count |-> comment.like_count,
   spam_score |-> r.score, source |-> comment.source]

\* The code point of a character of a date.
Ord(c) == IF c = "-" THEN 45 ELSE 48 + DigitValue(c)

\* a < b of two strings of date characters.
StrLess(a, b) ==
  \E i \in 1..(Len(b)) :
    /\ \A j \in 1..(i - 1) : j <= Len(a) /\ a[j] = b[j]
    /\ i > Len(a) \/ (i - 1 < Len(a) /\ Ord(a[i]) < Ord(b[i]))

\* _passes_date_filter(published_at, date_from, date_to)
passes_date_filter(published_at, date_from, date_to) ==
  LET comment_date == SubSeq(published_at, 1, IF Len(published_at) < 10
                                              THEN Len(published_at) ELSE 10)
  IN IF date_from = <<>> /\ date_to = <<>> THEN TRUE
     ELSE IF date_from # <<>> /\ StrLess(comment_date, date_from) THEN FALSE
     ELSE IF date_to # <<>> /\ StrLess(date_to, comment_date) THEN FALSE
     ELSE TRUE

\* WordsFilterValidator.matches_any(text, words)
matches_any(text, words) ==
  IF words = <<>> THEN TRUE
  ELSE \E i \in 1..Len(words) :
         Search(Cat(<<WordB, CompileLiteral(words[i]), WordB>>), LowerText(text), FALSE)

\* No filter before the spam filter.
passes_unfiltered(f, comment) == TRUE

\* Lines 319-331: the creator, likes, date and words filters.
passes_filters(f, comment) ==
  /\ ~(f.exclude_creator /\ comment.is_creator)
  /\ ~(comment.like_count < f.min_likes)
  /\ passes_date_filter(comment.published_at, f.date_from, f.date_to)
  /\ ~(f.filter_words # <<>> /\ ~matches_any(comment.text, f.filter_words))

\* No limit on the comments kept.
limit_ignored(max_results, comments) == FALSE

\* Lines 312 and 348: max_results and len(comments) >= max_results
limit_reached(max_results, comments) ==
  max_results # 0 /\ Len(comments) >= max_results

\* Lines 315-349: the loop over the items of a response from item i on;
\* lists holds comments and spam_comments.
RECURSIVE for_items(_, _, _, _, _, _)
for_items(self, interp, args, page, i, lists) ==
  IF i > Len(page) THEN lists
  ELSE IF ~passes_filters(args.filters, page[i])
  THEN for_items(self, interp, args, page, i + 1, lists)
  ELSE IF /\ args.filter_spam
          /\ analyze(self, interp, page[i].text, page[i].author_name,
                     page[i].like_count).is_spam
  THEN for_items(self, interp, args, page, i + 1,
                 [lists EXCEPT !.spam_comments =
                    Append(@, create_spam_comment(page[i],
                      analyze(self, interp, page[i].text, page[i].author_name,
                              page[i].like_count)))])
  ELSE IF limit_reached(args.max_results, Append(lists.comments, page[i]))
  THEN [lists EXCEPT !.comments = Append(@, page[i])]
  ELSE for_items(self, interp, args, page, i + 1,
                 [lists EXCEPT !.comments = Append(@, page[i])])

\* fetch_comments(...) is called: the two lists are empty and the first
\* request is built.
FetchCall ==
  /\ extractor.pc = "idle"
  /\ \E args \in FetchArgs :
       extractor' = [NoFetch EXCEPT !.pc = "paging", !.args = args]
  /\ UNCHANGED <<detector_vars, manager, app>>

\* The items of response number as _parse_comment returns them.
parsed(items, number) ==
  [i \in 1..Len(items) |-> parse_comment(items[i], creator_channel_id, <<number, i>>)]

\* The call after a response: the two lists, the response kept, and the
\* loop left when the response had no nextPageToken.
answered(self, page, token, lists) ==
  [self EXCEPT
     !.comments = lists.comments,
     !.spam_comments = lists.spam_comments,
     !.responses = Append(@, [kept_before |-> Len(self.comments), page |-> page,
                              token |-> token]),
     !.pc = IF token THEN "paging" ELSE "returned"]

\* Lines 315-366 for one response.
respond(self, spam_detector, interp, page, token) ==
  answered(self, page, token,
           for_items(spam_detector, interp, self.args, page, 1,
                     [comments |-> self.comments, spam_comments |-> self.spam_comments]))

\* Lines 311-366, one round of 'while request': the limit is tested, the
\* request is executed and answered with a page, with or without a
\* nextPageToken, the items are filtered and the next request is built.
FetchPage ==
  /\ extractor.pc = "paging"
  /\ IF limit_reached(extractor.args.max_results, extractor.comments)
     THEN extractor' = [extractor EXCEPT !.pc = "returned"]
     ELSE \E items \in Pages,
             token \in IF Len(extractor.responses) + 1 < MaxPages THEN BOOLEAN ELSE {FALSE} :
            extractor' = respond(extractor, detector, interpreter,
                                 parsed(items, Len(extractor.responses) + 1), token)
  /\ UNCHANGED <<detector_vars, manager, app>>

\* Line 369: request.execute() raises HttpError and _handle_http_error
\* raises in every branch: fetch_comments returns nothing.
FetchFails ==
  /\ extractor.pc = "paging"
  /\ ~limit_reached(extractor.args.max_results, extractor.comments)
  /\ extractor' = [extractor EXCEPT !.pc = "raised"]
  /\ UNCHANGED <<detector_vars, manager, app>>

\* The caller has taken the two lists, or the exception.
FetchDone ==
  /\ extractor.pc \in {"returned", "raised"}
  /\ extractor' = NoFetch
  /\ UNCHANGED <<detector_vars, manager, app>>

NextFetch ==
  \/ FetchCall
  \/ FetchPage
  \/ FetchFails
  \/ FetchDone

\* YouTubeCommentExtractor(api_key): the detector with the default
\* threshold and no custom patterns.
InitFetch ==
  /\ Init
  /\ init_args = [threshold |-> Dec(1, 2), blacklist_patterns |-> <<>>,
                  whitelist_patterns |-> <<>>]

SpecFetch == InitFetch /\ [][NextFetch]_vars

\* ------------------------------------------------------------------------
\* main.py: FetchState and the App window with its fetch worker thread
\* ------------------------------------------------------------------------

\* FetchState.start()
start(fetch_state) == [is_fetching |-> TRUE, cancel_event |-> FALSE]

\* FetchState.stop()
stop(fetch_state) == [is_fetching |-> FALSE, cancel_event |-> FALSE]

\* FetchState.request_cancel()
request_cancel(fetch_state) == [fetch_state EXCEPT !.cancel_event = TRUE]

\* A worker that never looks at the cancel flag.
never_requested(fetch_state) == FALSE

\* FetchState.cancel_requested
cancel_requested(fetch_state) == fetch_state.cancel_event

\* A start button that never finds a fetch under way.
never_fetching(fetch_state) == FALSE

\* Line 1223: if self.fetch_state.is_fetching: return
already_fetching(fetch_state) == fetch_state.is_fetching

\* The worker in place w is between the start of its thread and the end of
\* its for loop.
Looping(w) == app.workers[w].pc \in {"check", "begin", "process", "append", "locked", "progress"}
Running(w) == app.workers[w].pc # "none"
SomeLooping == \E w \in Workers : Looping(w)

\* What a step does to the result lists: by whom, with the lock or without,
\* and whether a worker was in its loop.
Access(by, locked) == [by |-> by, locked |-> locked, looping |-> SomeLooping]

\* The list with n entries of video v added.
Extended(list, v, n) == list \o [k \in 1..n |-> v]

\* start_fetching(): nothing when a fetch is under way or the inputs are not
\* valid; else FetchState.start(), the lists cleared under the lock, the
\* statistics updated, and the worker thread started, unless building the
\* extractor raises first.
StartFetching ==
  /\ app.modal = "none"
  /\ \E valid \in BOOLEAN, total_videos \in 1..MaxUrls, raises \in BOOLEAN,
        w \in {v \in Workers : ~Running(v)} :
       IF already_fetching(app.fetch_state) \/ ~valid
       THEN app' = [app EXCEPT !.handler = "start_fetching", !.access = NoAccess]
       ELSE /\ app.data_lock = "free"
            /\ app' = [app EXCEPT
                         !.fetch_state = start(@),
                         !.export_enabled = FALSE,
                         !.all_metadata = <<>>,
                         !.all_comments = <<>>,
                         !.all_spam = <<>>,
                         !.workers[w] = IF raises THEN @
                                        ELSE [NoWorker EXCEPT !.pc = "check",
                                                              !.total_videos = total_videos],
                         !.begun = 0,
                         !.handler = "start_fetching",
                         !.access = Access("start_fetching", TRUE)]
  /\ UNCHANGED <<detector_vars, manager, extractor>>

\* cancel_fetching()
CancelFetching ==
  /\ app.modal = "none"
  /\ app' = [app EXCEPT
               !.fetch_state = IF @.is_fetching THEN request_cancel(@) ELSE @,
               !.handler = "cancel_fetching",
               !.access = NoAccess]
  /\ UNCHANGED <<detector_vars, manager, extractor>>

\* The main loop, or the loop of an open dialog, runs the next callback of
\* self.after(0, ...): _update_stats, the enabling of the export buttons,
\* or _reset_fetch_ui.
RunCallback ==
  /\ app.after # <<>>
  /\ LET callback == Head(app.after)
     IN CASE callback = "_update_stats" ->
               /\ app.data_lock = "free"
               /\ app' = [app EXCEPT !.after = Tail(@), !.handler = callback,
                                     !.access = Access(callback, TRUE)]
          [] callback = "enable_export" ->
               app' = [app EXCEPT !.after = Tail(@), !.handler = callback,
                                  !.export_enabled = TRUE, !.access = NoAccess]
          [] callback = "_reset_fetch_ui" ->
               app' = [app EXCEPT !.after = Tail(@), !.handler = callback,
                                  !.fetch_state = stop(@), !.access = NoAccess]
  /\ UNCHANGED <<detector_vars, manager, extractor>>

\* export_csv() or export_excel(), by its button when that is enabled or by
\* Ctrl+S / Ctrl+E at any time: all_comments is tested, and when it is not
\* empty the file dialog opens.
ExportBegin ==
  /\ app.modal = "none"
  /\ \E format \in {"export_csv", "export_excel"}, via \in {"button", "shortcut"} :
       /\ via = "button" => app.export_enabled
       /\ app' = [app EXCEPT
                    !.modal = IF app.all_comments = <<>> THEN "none" ELSE format,
                    !.handler = format,
                    !.access = Access(format, FALSE)]
  /\ UNCHANGED <<detector_vars, manager, extractor>>

\* The file dialog closes: without a file name nothing happens, with one
\* save_to_csv() or save_to_excel() reads the three lists.
ExportSave ==
  /\ app.modal # "none"
  /\ \E filename \in BOOLEAN :
       app' = [app EXCEPT
                 !.modal = "none",
                 !.handler = app.modal,
                 !.access = IF filename THEN Access(app.modal, FALSE) ELSE NoAccess]
  /\ UNCHANGED <<detector_vars, manager, extractor>>

\* _fetch_thread, line 1341: the cancel flag is tested at the top of the
\* loop.
WorkerCheck(w) ==
  /\ app.workers[w].pc = "check"
  /\ app' = [app EXCEPT
               !.workers[w].pc = IF cancel_requested(app.fetch_state)
                                 THEN "counts" ELSE "begin",
               !.handler = "_fetch_thread",
               !.access = NoAccess]
  /\ UNCHANGED <<detector_vars, manager, extractor>>

\* Line 1354: process_video() is called.
WorkerBegin(w) ==
  /\ app.workers[w].pc = "begin"
  /\ app' = [app EXCEPT
               !.workers[w].pc = "process",
               !.begun = IF app.fetch_state.cancel_event THEN @ + 1 ELSE @,
               !.handler = "_fetch_thread",
               !.access = NoAccess]
  /\ UNCHANGED <<detector_vars, manager, extractor>>

\* process_video() returns comments and spam, or raises.
WorkerProcess(w) ==
  /\ app.workers[w].pc = "process"
  /\ \E raises \in BOOLEAN, comments \in 0..1, spam \in 0..1 :
       app' = [app EXCEPT
                 !.workers[w].pc = IF raises THEN "progress" ELSE "append",
                 !.workers[w].comments = IF raises THEN 0 ELSE comments,
                 !.workers[w].spam = IF raises THEN 0 ELSE spam,
                 !.handler = "_fetch_thread",
                 !.access = NoAccess]
  /\ UNCHANGED <<detector_vars, manager, extractor>>

\* Line 1367: with self._data_lock
WorkerAcquire(w) ==
  /\ app.workers[w].pc = "append"
  /\ app.data_lock = "free"
  /\ app' = [app EXCEPT !.workers[w].pc = "locked", !.data_lock = "worker",
                        !.handler = "_fetch_thread", !.access = NoAccess]
  /\ UNCHANGED <<detector_vars, manager, extractor>>

\* Lines 1368-1376: the three lists grow, the lock is released and
\* _update_stats is handed to the main loop.
WorkerAppend(w) ==
  /\ app.workers[w].pc = "locked"
  /\ LET video == app.workers[w].i + 1
     IN app' = [app EXCEPT
                  !.all_metadata = Append(@, video),
                  !.all_comments = Extended(@, video, app.workers[w].comments),
                  !.all_spam = Extended(@, video, app.workers[w].spam),
                  !.data_lock = "free",
                  !.after = Append(@, "_update_stats"),
                  !.workers[w].pc = "progress",
                  !.handler = "_fetch_thread",
                  !.access = Access("_fetch_thread", TRUE)]
  /\ UNCHANGED <<detector_vars, manager, extractor>>

\* Lines 1390-1397: the next URL after the delay, or the end of the loop.
WorkerProgress(w) ==
  /\ app.workers[w].pc = "progress"
  /\ app' = [app EXCEPT
               !.workers[w].pc = IF app.workers[w].i < app.workers[w].total_videos - 1
                                 THEN "check" ELSE "counts",
               !.workers[w].i = @ + 1,
               !.handler = "_fetch_thread",
               !.access = NoAccess]
  /\ UNCHANGED <<detector_vars, manager, extractor>>

\* Lines 1399-1418: the counts are read under the lock and the export
\* buttons are enabled when there are comments.
WorkerCounts(w) ==
  /\ app.workers[w].pc = "counts"
  /\ app.data_lock = "free"
  /\ app' = [app EXCEPT
               !.after = IF app.all_comments # <<>> THEN Append(@, "enable_export") ELSE @,
               !.workers[w].pc = "finally",
               !.handler = "_fetch_thread",
               !.access = Access("_fetch_thread", TRUE)]
  /\ UNCHANGED <<detector_vars, manager, extractor>>

\* Lines 1427-1428: finally: self.after(0, self._reset_fetch_ui); the
\* thread ends.
WorkerFinally(w) ==
  /\ app.workers[w].pc = "finally"
  /\ app' = [app EXCEPT
               !.after = Append(@, "_reset_fetch_ui"),
               !.workers[w] = NoWorker,
               !.handler = "_fetch_thread",
               !.access = NoAccess]
  /\ UNCHANGED <<detector_vars, manager, extractor>>

Worker(w) ==
  \/ WorkerCheck(w)
  \/ WorkerBegin(w)
  \/ WorkerProcess(w)
  \/ WorkerAcquire(w)
  \/ WorkerAppend(w)
  \/ WorkerProgress(w)
  \/ WorkerCounts(w)
  \/ WorkerFinally(w)

NextApp ==
  \/ StartFetching
  \/ CancelFetching
  \/ RunCallback
  \/ ExportBegin
  \/ ExportSave
  \/ \E w \in Workers : Worker(w)

SpecApp == InitFetch /\ [][NextApp]_vars

\* ------------------------------------------------------------------------
\* Properties of analyze()
\* ------------------------------------------------------------------------

\* Thread t's call has returned.
Done(t) == pc[t] = "done"

\* Thread t's call has returned through the branch path and no other.
Took(t, path) == pc[t] = "done" /\ executed[t] = {path}

\* The text is empty or holds whitespace only.
IsBlank(text) == \A i \in 1..Len(text) : text[i] \in Whitespace

\* The phrase occurs in the text as a substring, whatever the case.
OccursIn(phrase, text) ==
  \E k \in 0..(Len(text) - Len(phrase)) :
    \A j \in 1..Len(phrase) : Lower(text[k + j]) = Lower(phrase[j])

\* The phrases of a list that the constructor keeps: trimmed, not empty.
Configured(phrases) == {Strip(phrases[i]) : i \in 1..Len(phrases)} \ {<<>>}

AllowMatches(text) ==
  \E phrase \in Configured(detector.whitelist_patterns) : OccursIn(phrase, text)

DenyMatches(text) ==
  \E phrase \in Configured(detector.blacklist_patterns) : OccursIn(phrase, text)

\* C1: the score of every record analyze() returns lies in [0, 1], on the
\* empty-input, allow-list, deny-list and full-pipeline paths alike, for
\* every threshold, phrase list, text, author and like count.
C1_ScoreInUnitInterval ==
  \A t \in Threads :
    Done(t) => FGe(result[t].score, Zero) /\ FLe(result[t].score, One)

\* A full-pipeline call whose legitimacy bonuses outweigh its spam signals:
\* base score plus adjustment is negative and the reported score is 0.
C1_Witness ==
  \E t \in Threads :
    /\ Took(t, "pipeline")
    /\ frame[t].signals # <<>>
    /\ ~FGe(FAdd(frame[t].base_score,
                 adjustment_of(interpreter, frame[t].legitimacy_signals)), Zero)
    /\ result[t].score = Zero

\* C2 as claimed: in every returned record is_spam holds exactly when the
\* reported (3-decimal) score is at least the record's threshold.
C2_VerdictFromReportedScore ==
  \A t \in Threads :
    Done(t) => (result[t].is_spam <=> FGe(result[t].score, result[t].threshold))

\* C2 amended: on the full pipeline is_spam holds exactly when the clamped
\* final score before rounding is at least the threshold, and the reported
\* score is that final score rounded to 3 decimals; the empty-input and
\* allow-list paths report score 0.0 and not spam, the deny-list path score
\* 1.0 and spam, whatever the threshold.
C2_VerdictFromFinalScore ==
  \A t \in Threads :
    Done(t) =>
      /\ result[t].threshold = detector.threshold
      /\ (executed[t] = {"pipeline"} =>
            /\ result[t].is_spam <=> FGe(frame[t].final_score, detector.threshold)
            /\ result[t].score = rounded(frame[t].final_score))
      /\ (executed[t] \in {{"empty"}, {"whitelist"}} =>
            ~result[t].is_spam /\ result[t].score = Zero)
      /\ (executed[t] = {"blacklist"} =>
            result[t].is_spam /\ result[t].score = One)

\* A full-pipeline record whose final score lies just below the threshold
\* and rounds to it: the reported score equals the threshold, not spam.
C2_Witness ==
  \E t \in Threads :
    /\ Took(t, "pipeline")
    /\ ~FGe(frame[t].final_score, detector.threshold)
    /\ result[t].score = detector.threshold
    /\ ~result[t].is_spam

\* C3: when a configured allow-phrase occurs in the raw text (as a
\* substring, whatever the case), analyze() returns score 0.0, not spam, no
\* spam signal and exactly one legitimacy signal, whatever the threshold,
\* the author, the text's spam content and the deny-phrases.
C3_AllowPhraseWins ==
  \A t \in Threads :
    (Done(t) /\ AllowMatches(call[t].text)) =>
      /\ result[t].score = Zero
      /\ ~result[t].is_spam
      /\ result[t].signals = <<>>
      /\ Len(result[t].legitimacy_signals) = 1

\* An allow-phrase and a deny-phrase both occur, the author carries a badge
\* and the threshold is 0.0.
C3_Witness ==
  \E t \in Threads :
    /\ Done(t)
    /\ AllowMatches(call[t].text)
    /\ DenyMatches(call[t].text)
    /\ call[t].author_name # <<>>
    /\ detector.threshold = Zero
    /\ ~result[t].is_spam

\* C4: when a configured deny-phrase occurs in the raw text and no
\* allow-phrase does, analyze() returns score 1.0 and spam with exactly one
\* spam signal, of weight 1.0, and no legitimacy signal, at every
\* threshold; when an allow-phrase occurs too, the allow result (score 0.0,
\* not spam) is returned.
C4_DenyPhraseAfterAllow ==
  \A t \in Threads :
    (Done(t) /\ DenyMatches(call[t].text)) =>
      IF AllowMatches(call[t].text)
      THEN result[t].score = Zero /\ ~result[t].is_spam
      ELSE /\ result[t].score = One
           /\ result[t].is_spam
           /\ Len(result[t].signals) = 1
           /\ result[t].signals[1].weight = One
           /\ result[t].legitimacy_signals = <<>>

\* A deny-phrase occurs and no allow-phrase of the configured allow-list
\* does; the threshold is 1.0.
C4_Witness ==
  \E t \in Threads :
    /\ Done(t)
    /\ DenyMatches(call[t].text)
    /\ ~AllowMatches(call[t].text)
    /\ detector.compiled_whitelist # <<>>
    /\ detector.threshold = One
    /\ result[t].is_spam

\* C5: for an empty or whitespace-only text analyze() returns score 0.0,
\* not spam and no signal of either kind, whatever the threshold, the
\* author, the like count and the phrase lists.
C5_BlankTextIsHarmless ==
  \A t \in Threads :
    (Done(t) /\ IsBlank(call[t].text)) =>
      /\ result[t].score = Zero
      /\ ~result[t].is_spam
      /\ result[t].signals = <<>>
      /\ result[t].legitimacy_signals = <<>>

\* A whitespace-only text from an author with a badge and a suspicious
\* suffix, with 100 likes, on a detector with both phrase lists and
\* threshold 0.0.
C5_Witness ==
  \E t \in Threads :
    /\ Done(t)
    /\ call[t].text # <<>>
    /\ IsBlank(call[t].text)
    /\ call[t].author_name = <<"U+2713">> \o Chars(" vip")
    /\ call[t].like_count = 100
    /\ detector.compiled_whitelist # <<>>
    /\ detector.compiled_blacklist # <<>>
    /\ detector.threshold = Zero
    /\ result[t].score = Zero

\* The branch that analyze() returns through for the text.
PathOf(text) ==
  IF IsBlank(text) THEN "empty"
  ELSE IF AllowMatches(text) THEN "whitelist"
  ELSE IF DenyMatches(text) THEN "blacklist"
  ELSE "pipeline"

\* C6 as claimed: every call executes exactly one of the three paths
\* allow-list short-circuit, deny-list short-circuit and full pipeline.
C6_ExactlyOneOfThreePaths ==
  \A t \in Threads :
    Done(t) => \E path \in {"whitelist", "blacklist", "pipeline"} : executed[t] = {path}

\* C6 amended: every call executes exactly one of the four paths
\* empty-input return, allow-list short-circuit, deny-list short-circuit
\* and full pipeline: the empty-input return for an empty or
\* whitespace-only text, else the allow-list path when an allow-phrase
\* occurs, else the deny-list path when a deny-phrase occurs, else the full
\* pipeline; no call ever enters two of them.
C6_ExactlyOneOfFourPaths ==
  \A t \in Threads :
    /\ Cardinality(executed[t]) <= 1
    /\ Done(t) => executed[t] = {PathOf(call[t].text)}

\* A whitespace-only text on a detector with both phrase lists returns
\* through the empty-input branch, none of the three.
C6_Witness ==
  \E t \in Threads :
    /\ Took(t, "empty")
    /\ call[t].text # <<>>
    /\ detector.compiled_whitelist # <<>>
    /\ detector.compiled_blacklist # <<>>

\* C7: what a call returns is analyze() of its detector and arguments,
\* whatever the other thread does meanwhile, so the same input gives the
\* same score, verdict and signals; and no step changes the detector's
\* threshold or its phrase lists, raw or compiled.
C7_AnalyzeIsAFunction ==
  [][/\ detector' = detector
     /\ \A t \in Threads :
          pc'[t] = "done" =>
            result'[t] = analyze(detector, interpreter, call'[t].text,
                                 call'[t].author_name, call'[t].like_count)]_vars

\* One thread has returned from the full pipeline with spam signals while
\* the other, analysing the same text with another like count, is between
\* detection and scoring.
C7_Witness ==
  /\ Took(1, "pipeline")
  /\ result[1].signals # <<>>
  /\ pc[2] = "score"
  /\ frame[2].signals # <<>>
  /\ call[2].text = call[1].text
  /\ call[2].like_count # call[1].like_count

\* The weights of the signals, in the signals' order.
WeightsOf(signals) == [i \in 1..Len(signals) |-> signals[i].weight]

\* The weight at rank k from the top: fewer than k weights are greater and
\* at least k are as great.
RankedWeight(ws, k) ==
  CHOOSE w \in Range(ws) :
    /\ Cardinality({i \in 1..Len(ws) : FGe(ws[i], w) /\ ws[i] # w}) < k
    /\ Cardinality({i \in 1..Len(ws) : FGe(ws[i], w)}) >= k

Descending(ws) == [k \in 1..Len(ws) |-> RankedWeight(ws, k)]

\* min(1.0, w0 + w1 * 0.5 + w2 * 0.25 + ...), added from the left.
DiminishingSum(ws) ==
  IF ws = <<>> THEN Zero ELSE FMin(One, Accumulate(ws[1], ws, 2))

\* C8: in the full pipeline the base score is min(1.0, w0 + sum of
\* w_i * 0.5^i) over the weights of all spam signals in descending order,
\* 0 without signals; two signals of one weight w give w + w * 0.5, less
\* than 2w.
C8_BaseScoreDiminishingReturns ==
  \A t \in Threads :
    Took(t, "pipeline") =>
      /\ frame[t].base_score = DiminishingSum(Descending(WeightsOf(result[t].signals)))
      /\ (/\ Len(result[t].signals) = 2
          /\ result[t].signals[1].weight = result[t].signals[2].weight) =>
           /\ frame[t].base_score =
                FAdd(result[t].signals[1].weight, FHalve(result[t].signals[1].weight, 1))
           /\ ~FGe(frame[t].base_score, FMulInt(2, result[t].signals[1].weight))

\* Three signals or more, found in another order than the descending one,
\* two of them of one weight.
C8_Witness ==
  \E t \in Threads :
    /\ Took(t, "pipeline")
    /\ Len(result[t].signals) >= 3
    /\ \E i, j \in 1..Len(result[t].signals) :
         /\ i < j
         /\ ~FGe(result[t].signals[i].weight, result[t].signals[j].weight)
    /\ \E i, j \in 1..Len(result[t].signals) :
         i < j /\ result[t].signals[i].weight = result[t].signals[j].weight
    /\ ~FGe(frame[t].base_score, One)

\* The names an engagement signal for n likes can carry.
EngagementNames(n) ==
  {kind \o ToString(n) \o " likes)" \o suffix :
     kind \in {"High engagement (", "Community validated ("},
     suffix \in {"", " [capped - high spam signals]"}}

\* The positions of the engagement signals in what thread t's call returned.
EngagementSignals(t) ==
  {i \in 1..Len(result[t].legitimacy_signals) :
     result[t].legitimacy_signals[i].signal \in EngagementNames(call[t].like_count)}

\* C9: with a base score of 0.55 or more the engagement bonus is never
\* below -0.10, whatever the like count; with a base score under 0.55 and
\* 100 likes or more it is exactly -0.25; under 10 likes there is no
\* engagement signal; there is never more than one.
C9_EngagementCapping ==
  \A t \in Threads :
    Took(t, "pipeline") =>
      /\ Cardinality(EngagementSignals(t)) <= 1
      /\ call[t].like_count < 10 => EngagementSignals(t) = {}
      /\ FGe(frame[t].base_score, Dec(55, 100)) =>
           \A i \in EngagementSignals(t) :
             FGe(result[t].legitimacy_signals[i].bonus, FNeg(Dec(10, 100)))
      /\ (~FGe(frame[t].base_score, Dec(55, 100)) /\ call[t].like_count >= 100) =>
           /\ EngagementSignals(t) # {}
           /\ \A i \in EngagementSignals(t) :
                result[t].legitimacy_signals[i].bonus = FNeg(Dec(25, 100))

\* 100 likes on a comment whose base score is 0.55 or more: the one
\* engagement signal carries the capped bonus -0.10.
C9_Witness ==
  \E t \in Threads :
    /\ Took(t, "pipeline")
    /\ call[t].like_count = 100
    /\ FGe(frame[t].base_score, Dec(55, 100))
    /\ \E i \in EngagementSignals(t) :
         result[t].legitimacy_signals[i].bonus = FNeg(Dec(10, 100))

\* The detector was constructed without custom phrases.
NoCustomPhrases ==
  detector.blacklist_patterns = <<>> /\ detector.whitelist_patterns = <<>>

\* The signals hold one of the category and name of s.
SameSignal(s, signals) ==
  \E i \in 1..Len(signals) :
    signals[i].category = s.category /\ signals[i].signal = s.signal

\* C10: on a detector without custom phrases, a text made from one that
\* triggers a built-in spam signal by replacing Latin letters with
\* look-alikes of the homoglyph table triggers every spam signal the
\* original triggered, in the same category, and its record has
\* had_obfuscation = true.
C10_HomoglyphsDoNotHide ==
  \A t \in Threads :
    (/\ Done(t)
     /\ substitutions[t] > 0
     /\ NoCustomPhrases
     /\ original[t].signals # <<>>) =>
      /\ result[t].had_obfuscation
      /\ \A i \in 1..Len(original[t].signals) :
           SameSignal(original[t].signals[i], result[t].signals)

\* A comment with a spam signal, rewritten twice and analysed again.
C10_Witness ==
  \E t \in Threads :
    /\ Done(t)
    /\ substitutions[t] = MaxSubstitutions
    /\ NoCustomPhrases
    /\ original[t].signals # <<>>
    /\ result[t].had_obfuscation
    /\ Len(result[t].signals) > Len(original[t].signals)

\* The names of the spam signals in the order analyze() checks for them;
\* the crypto signal's name carries its match count.
CheckOrder ==
  <<{"Homoglyph obfuscation detected"},
    {"Seed phrase / wallet scam pattern"},
    {"Crypto/trading keywords (" \o ToString(n) \o "x)" : n \in 1..9},
    {"Financial promises/guarantees"},
    {"Platform redirect link", "Contact solicitation"},
    {"Phone number detected"},
    {"Email address detected"},
    {"Fake pinned comment pattern"},
    {"Fake verification badge in username"},
    {"Suspicious username suffix"},
    {"Channel/profile promotion"},
    {"Self-promotion phrases"},
    {"Book/product promotion"},
    {"Shortened URL (suspicious)", "URL detected"},
    {"Template markers detected", "Generic bot-like phrase"},
    {"Adult/inappropriate content"},
    {"Engagement bait"},
    {"Matched blacklist pattern"}>>

\* The place of a signal in the check order.
Rank(s) == CHOOSE k \in 1..Len(CheckOrder) : s.signal \in CheckOrder[k]

\* C11: primary_category is the category of the spam signal of highest
\* weight, of the one found first in the check order when several share
\* that weight (the record lists its signals in the check order), and it is
\* absent exactly when the record has no spam signal.
C11_PrimaryCategory ==
  \A t \in Threads :
    Done(t) =>
      /\ primary_category(result[t]) = "None" <=> result[t].signals = <<>>
      /\ \A i, j \in 1..Len(result[t].signals) :
           i < j => Rank(result[t].signals[i]) < Rank(result[t].signals[j])
      /\ \A i \in 1..Len(result[t].signals) :
           (/\ \A j \in 1..Len(result[t].signals) :
                 FGe(result[t].signals[i].weight, result[t].signals[j].weight)
            /\ \A j \in 1..(i - 1) :
                 result[t].signals[j].weight # result[t].signals[i].weight) =>
             primary_category(result[t]) = result[t].signals[i].category

\* Two signals of different categories share the highest weight and a
\* lighter signal was found between them.
C11_Witness ==
  \E t \in Threads :
    /\ Done(t)
    /\ \E i, j \in 1..Len(result[t].signals) :
         /\ i + 1 < j
         /\ result[t].signals[i].weight = result[t].signals[j].weight
         /\ result[t].signals[i].category # result[t].signals[j].category
         /\ \A k \in 1..Len(result[t].signals) :
              FGe(result[t].signals[i].weight, result[t].signals[k].weight)
         /\ primary_category(result[t]) = result[t].signals[i].category

\* C12 as claimed: analyze() never raises, whatever is passed as text,
\* author_name and like_count: every call returns a record.
C12_NeverRaises ==
  \A t \in Threads : pc[t] # "raised"

\* What analyze() says of one comment: the text, the author and the like
\* count under their keys, "" and 0 for a missing key, the number a string
\* like count spells and 0 if it spells none.
SaysSpam(comment) ==
  analyze(batch.detector, interpreter,
          IF text_key \in DOMAIN comment THEN comment[text_key].value ELSE <<>>,
          IF author_key \in DOMAIN comment THEN comment[author_key].value ELSE <<>>,
          IF likes_key \in DOMAIN comment /\ comment[likes_key].type = "int"
          THEN comment[likes_key].value
          ELSE IF likes_key \in DOMAIN comment /\ comment[likes_key].type = "str"
                  /\ IsIntLiteral(comment[likes_key].value)
          THEN IntOf(comment[likes_key].value)
          ELSE 0).is_spam

NotSpam(comment) == ~SaysSpam(comment)

WithoutScores(comment, as_given) == [k \in DOMAIN as_given |-> comment[k]]

\* C13: the list filter_spam_batch() returns holds exactly the comments that
\* analyze() does not call spam, each once and in the order of the input,
\* and the caller's comments are as they were passed, include_scores or not.
C13_BatchKeepsNonSpam ==
  batch.pc = "returned" =>
    /\ batch.comments = batch.given
    /\ Len(batch.filtered) = Len(SelectSeq(batch.given, NotSpam))
    /\ \A i \in 1..Len(batch.filtered) :
         /\ DOMAIN SelectSeq(batch.given, NotSpam)[i] \subseteq DOMAIN batch.filtered[i]
         /\ WithoutScores(batch.filtered[i], SelectSeq(batch.given, NotSpam)[i])
              = SelectSeq(batch.given, NotSpam)[i]
         /\ ~batch.include_scores
              => batch.filtered[i] = SelectSeq(batch.given, NotSpam)[i]

\* A list of two comments with scores asked for: the first is spam and is
\* dropped, the second is kept and annotated.
C13_Witness ==
  /\ batch.pc = "returned"
  /\ batch.include_scores
  /\ Len(batch.given) = 2
  /\ SaysSpam(batch.given[1])
  /\ Len(batch.filtered) = 1
  /\ "spam_score" \in DOMAIN batch.filtered[1]

\* The threshold is a number within [0, 1].
InUnitInterval(x) == ~IsNaN(x) /\ FGe(x, Zero) /\ FLe(x, One)

\* C14 as claimed: the detector's threshold is min(1.0, max(0.0, threshold))
\* of the threshold passed to the constructor, lies in [0, 1], and every
\* record the detector returns carries it.
C14_ThresholdIsMinOfMax ==
  /\ detector.threshold = min_float(One, max_float(Zero, init_args.threshold))
  /\ InUnitInterval(detector.threshold)
  /\ \A t \in Threads : Done(t) => result[t].threshold = detector.threshold

\* C14 amended: the detector's threshold is max(0.0, min(1.0, threshold)):
\* the threshold passed if it lies in [0, 1], 0.0 if it is below, 1.0 if it
\* is above, and 1.0 if it is not a number (where min(1.0, max(0.0,
\* threshold)) is 0.0); it lies in [0, 1], and every record the detector
\* returns carries it.
C14_ThresholdClamped ==
  /\ detector.threshold =
       IF IsNaN(init_args.threshold) THEN One
       ELSE IF InUnitInterval(init_args.threshold) THEN init_args.threshold
       ELSE IF init_args.threshold.neg THEN Zero
       ELSE One
  /\ InUnitInterval(detector.threshold)
  /\ \A t \in Threads : Done(t) => result[t].threshold = detector.threshold

\* A record of the full pipeline from a detector that was constructed with
\* a threshold above 1.0.
C14_Witness ==
  \E t \in Threads :
    /\ Took(t, "pipeline")
    /\ ~IsNaN(init_args.threshold)
    /\ ~FLe(init_args.threshold, One)
    /\ result[t].threshold = One

\* The crypto-keyword signals of a record.
CryptoSignals(r) ==
  {i \in 1..Len(r.signals) : r.signals[i].category = "CRYPTO_SCAM"}

\* The words of the text, split at single spaces, that are one of the crypto
\* keywords the comments use, whatever their case.
KeywordWords(text) ==
  Cardinality({i \in 1..(Len(text) - 2) :
                 /\ i = 1 \/ text[i - 1] = " "
                 /\ i + 3 > Len(text) \/ text[i + 3] = " "
                 /\ LowerText(SubSeq(text, i, i + 2)) \in {Chars("btc"), Chars("eth")}})

\* The name of the crypto-keyword signal for n matches.
CryptoName(n) == "Crypto/trading keywords (" \o ToString(n) \o "x)"

\* 0.35 + 0.08 for one match, 0.08 more for each further one, at most 0.65.
WeightTable(n) ==
  IF n = 1 THEN Dec(43, 100)
  ELSE IF n = 2 THEN Dec(51, 100)
  ELSE IF n = 3 THEN Dec(59, 100)
  ELSE Dec(65, 100)

\* C15 as claimed: the crypto-keyword signal weighs 0.35 for one match and
\* 0.08 more for each further match, min(0.35 + 0.08*(n-1), 0.65) for n
\* matches.
C15_WeightFromBase ==
  \A t \in Threads :
    Took(t, "pipeline") =>
      \A i \in CryptoSignals(result[t]) :
        /\ result[t].signals[i].signal = CryptoName(KeywordWords(call[t].text))
        /\ result[t].signals[i].weight =
             FMin(FAdd(Dec(35, 100),
                       FMulInt(KeywordWords(call[t].text) - 1, Dec(8, 100))),
                  Dec(65, 100))

\* C15 amended: for n keyword occurrences in the text (every occurrence
\* counts, the same keyword twice counts twice) the crypto-keyword signal
\* weighs min(0.35 + 0.08*n, 0.65): 0.43 for one, 0.51 for two, 0.59 for
\* three and 0.65 from four on; without an occurrence there is no such
\* signal.
C15_WeightPerOccurrence ==
  \A t \in Threads :
    Took(t, "pipeline") =>
      /\ (CryptoSignals(result[t]) # {}) <=> (KeywordWords(call[t].text) > 0)
      /\ \A i \in CryptoSignals(result[t]) :
           /\ result[t].signals[i].signal = CryptoName(KeywordWords(call[t].text))
           /\ result[t].signals[i].weight = WeightTable(KeywordWords(call[t].text))

\* One keyword twice: two matches, weight 0.51.
C15_Witness ==
  \E t \in Threads :
    /\ Took(t, "pipeline")
    /\ call[t].text = Chars("btc btc")
    /\ \E i \in CryptoSignals(result[t]) : result[t].signals[i].weight = Dec(51, 100)

\* The number of matches a crypto-keyword signal reports in its name.
ReportedCount(sig) == CHOOSE n \in 1..(MaxRepeats + 1) : sig.signal = CryptoName(n)

\* C16: a crypto-keyword signal never weighs more than 0.65, it weighs at
\* least what any smaller number of occurrences weighs, and a record has at
\* most one crypto-keyword signal.
C16_CryptoWeightCeiling ==
  \A t \in Threads :
    Done(t) =>
      /\ Cardinality(CryptoSignals(result[t])) <= 1
      /\ \A i \in CryptoSignals(result[t]) :
           /\ FLe(result[t].signals[i].weight, Dec(65, 100))
           /\ \A m \in 1..ReportedCount(result[t].signals[i]) :
                FLe(crypto_weight(m), result[t].signals[i].weight)

\* Five occurrences: the weight is the ceiling, as for four.
C16_Witness ==
  \E t \in Threads :
    /\ Took(t, "pipeline")
    /\ KeywordWords(call[t].text) = 5
    /\ \E i \in CryptoSignals(result[t]) :
         /\ result[t].signals[i].weight = Dec(65, 100)
         /\ crypto_weight(4) = Dec(65, 100)
         /\ ~FGe(crypto_weight(3), Dec(65, 100))

\* The names of the signals of a record.
SignalNames(r) == {r.signals[i].signal : i \in 1..Len(r.signals)}

\* The stronger check of each pair and its weaker counterpart.
SupersedingPairs ==
  {<<"Platform redirect link", "Contact solicitation">>,
   <<"Shortened URL (suspicious)", "URL detected">>,
   <<"Template markers detected", "Generic bot-like phrase">>}

\* C17: no record holds both signals of a pair: 'Platform redirect link' and
\* 'Contact solicitation', 'Shortened URL' and 'URL detected', 'Template
\* markers detected' and 'Generic bot-like phrase'.
C17_StrongerSupersedesWeaker ==
  \A t \in Threads :
    Done(t) => \A pair \in SupersedingPairs : ~({pair[1], pair[2]} \subseteq SignalNames(result[t]))

\* A comment in which all six patterns match: the record holds the three
\* stronger signals and none of the weaker.
C17_Witness ==
  \E t \in Threads :
    /\ Took(t, "pipeline")
    /\ Found(ScanTable[call[t].text].platform_redirect)
    /\ Found(ScanTable[call[t].text].contact_solicitation)
    /\ Found(ScanTable[call[t].text].shortened_urls)
    /\ Found(ScanTable[call[t].text].url_pattern)
    /\ Found(ScanTable[call[t].text].bot_template_markers)
    /\ Found(ScanTable[call[t].text].bot_generic_phrases)
    /\ \A pair \in SupersedingPairs :
         pair[1] \in SignalNames(result[t]) /\ pair[2] \notin SignalNames(result[t])

\* The text holds a letter of the confusable-letter table.
HasConfusable(text) ==
  \E i \in 1..Len(text) :
    text[i] \in {"U+0430", "U+0441", "U+0435", "U+043E", "U+0440", "U+0445", "U+0443",
                 "U+0456", "U+0458", "U+0455", "U+04BB", "U+0501", "U+051B", "U+051D",
                 "U+1D26", "U+0410", "U+0412", "U+0421", "U+0415", "U+041D", "U+041A",
                 "U+041C", "U+041E", "U+0420", "U+0422", "U+0425", "U+0423", "U+0406",
                 "U+03B1", "U+03BF", "U+03C1", "U+03C4", "U+03C5", "U+03BD", "U+03C9",
                 "U+03C7"}

\* The obfuscation signals of a record.
ObfuscationSignals(r) ==
  {i \in 1..Len(r.signals) : r.signals[i].category = "OBFUSCATION"}

\* C18 as claimed: in every record had_obfuscation tells whether the raw text
\* holds a confusable letter, and an OBFUSCATION signal of weight 0.3 is
\* there exactly when had_obfuscation is true.
C18_ObfuscationInEveryRecord ==
  \A t \in Threads :
    Done(t) =>
      /\ result[t].had_obfuscation <=> HasConfusable(call[t].text)
      /\ (ObfuscationSignals(result[t]) # {}) <=> result[t].had_obfuscation
      /\ \A i \in ObfuscationSignals(result[t]) : result[t].signals[i].weight = Dec(3, 10)

\* C18 amended: in every record of the full pipeline had_obfuscation tells
\* whether the raw text holds a confusable letter, and one OBFUSCATION signal
\* of weight 0.3 is there exactly when it is true; the records of the
\* empty-input, allow-list and deny-list paths have had_obfuscation false and
\* no OBFUSCATION signal, whatever letters the text holds.
C18_ObfuscationOnFullPipeline ==
  \A t \in Threads :
    Done(t) =>
      /\ result[t].had_obfuscation <=>
           (Took(t, "pipeline") /\ HasConfusable(call[t].text))
      /\ Cardinality(ObfuscationSignals(result[t])) = IF result[t].had_obfuscation THEN 1 ELSE 0
      /\ \A i \in ObfuscationSignals(result[t]) : result[t].signals[i].weight = Dec(3, 10)

\* A comment of Latin letters and one Cyrillic letter on the full pipeline:
\* had_obfuscation is true and the signal is there.
C18_Witness ==
  \E t \in Threads :
    /\ Took(t, "pipeline")
    /\ HasConfusable(call[t].text)
    /\ \E i \in 1..Len(call[t].text) : call[t].text[i] \in AsciiLetters
    /\ result[t].had_obfuscation
    /\ ObfuscationSignals(result[t]) # {}

\* C19: every legitimacy signal of a record has a bonus of at most 0; on the
\* full pipeline the final score is at most the base score of the spam
\* signals; a record without spam signals has score 0.0.
C19_BonusesOnlyReduce ==
  \A t \in Threads :
    Done(t) =>
      /\ \A i \in 1..Len(result[t].legitimacy_signals) :
           FLe(result[t].legitimacy_signals[i].bonus, Zero)
      /\ Took(t, "pipeline") =>
           /\ frame[Frame(t)].base_score = base_score_of(result[t].signals)
           /\ FLe(frame[Frame(t)].final_score, frame[Frame(t)].base_score)
      /\ result[t].signals = <<>> => result[t].score = Zero

\* A record of the full pipeline with spam signals and legitimacy signals:
\* the final score is below the base score and above 0.
C19_Witness ==
  \E t \in Threads :
    /\ Took(t, "pipeline")
    /\ result[t].signals # <<>>
    /\ Len(result[t].legitimacy_signals) >= 2
    /\ ~FGe(frame[Frame(t)].final_score, frame[Frame(t)].base_score)
    /\ ~FLe(frame[Frame(t)].final_score, Zero)

\* The length of the text without the whitespace at its two ends.
TrimmedLength(text) ==
  IF IsBlank(text) THEN 0
  ELSE (CHOOSE j \in 1..Len(text) :
          text[j] \notin Whitespace /\ \A k \in (j + 1)..Len(text) : text[k] \in Whitespace)
       - (CHOOSE i \in 1..Len(text) :
            text[i] \notin Whitespace /\ \A k \in 1..(i - 1) : text[k] \in Whitespace)
       + 1

\* The legitimacy signals of the record with the given name.
Bonuses(r, name) ==
  {i \in 1..Len(r.legitimacy_signals) : r.legitimacy_signals[i].signal = name}

\* The two length bonuses of a record follow the trimmed length of the text
\* and the number of its spam signals, and never come together.
LengthBonuses(t) ==
  /\ (Bonuses(result[t], "Short harmless comment") # {}) <=>
       (TrimmedLength(call[t].text) < 30 /\ Len(result[t].signals) = 0)
  /\ (Bonuses(result[t], "Long thoughtful comment") # {}) <=>
       (TrimmedLength(call[t].text) > 200 /\ Len(result[t].signals) <= 1)
  /\ \A i \in Bonuses(result[t], "Short harmless comment") :
       result[t].legitimacy_signals[i].bonus = FNeg(Dec(10, 100))
  /\ \A i \in Bonuses(result[t], "Long thoughtful comment") :
       result[t].legitimacy_signals[i].bonus = FNeg(Dec(15, 100))
  /\ Bonuses(result[t], "Short harmless comment") = {}
       \/ Bonuses(result[t], "Long thoughtful comment") = {}

\* C20 as claimed: in every record the 'short harmless' bonus (-0.10) is
\* there exactly when the trimmed text is shorter than 30 characters and the
\* record has no spam signal, the 'long thoughtful' bonus (-0.15) exactly
\* when it is longer than 200 characters and the record has at most one spam
\* signal, and never both.
C20_LengthBonusInEveryRecord == \A t \in Threads : Done(t) => LengthBonuses(t)

\* C20 amended: that holds of the records of the full pipeline; the records
\* of the empty-input, allow-list and deny-list paths carry neither bonus,
\* however short or long the text.
C20_LengthBonusOnFullPipeline ==
  \A t \in Threads :
    Done(t) =>
      IF Took(t, "pipeline") THEN LengthBonuses(t)
      ELSE /\ Bonuses(result[t], "Short harmless comment") = {}
           /\ Bonuses(result[t], "Long thoughtful comment") = {}

\* A comment of 201 characters with one spam signal gets the 'long
\* thoughtful' bonus.
C20_Witness ==
  \E t \in Threads :
    /\ Took(t, "pipeline")
    /\ TrimmedLength(call[t].text) = 201
    /\ Len(result[t].signals) = 1
    /\ Bonuses(result[t], "Long thoughtful comment") # {}

\* ------------------------------------------------------------------------
\* Properties of normalize_text()
\* ------------------------------------------------------------------------

\* The token of the text that holds position i: from after the space before
\* it to before the space after it.
TokenStart(text, i) ==
  CHOOSE j \in 1..i :
    /\ j = 1 \/ text[j - 1] = " "
    /\ \A k \in j..i : text[k] # " "

TokenEnd(text, i) ==
  CHOOSE j \in i..Len(text) :
    /\ j = Len(text) \/ text[j + 1] = " "
    /\ \A k \in i..j : text[k] # " "

TokenAt(text, i) == SubSeq(text, TokenStart(text, i), TokenEnd(text, i))

\* The token is a URL-like span: http(s)://..., www...., t.me/..., ....ly/...
UrlLike(token) ==
  \/ StartsWith(token, Chars("http://")) /\ Len(token) > 7
  \/ StartsWith(token, Chars("https://")) /\ Len(token) > 8
  \/ StartsWith(token, Chars("www.")) /\ Len(token) > 4
  \/ StartsWith(token, Chars("t.me/")) /\ Len(token) > 5
  \/ \E k \in 2..(Len(token) - 4) : SubSeq(token, k, k + 3) = Chars(".ly/")

\* The letter a leetspeak character stands for.
LeetLetter(c) ==
  CASE c \in {"@", "4", "^"} -> "a"
    [] c = "8" -> "b"
    [] c \in {"(", "<", "{"} -> "c"
    [] c \in {"3", "U+20AC"} -> "e"
    [] c \in {"6", "9"} -> "g"
    [] c = "#" -> "h"
    [] c \in {"1", "!", "|"} -> "i"
    [] c \in {"0", "U+00F8"} -> "o"
    [] c \in {"$", "5"} -> "s"
    [] c \in {"7", "+"} -> "t"
    [] c = "U+00B5" -> "u"
    [] c = "2" -> "z"
    [] OTHER -> c

\* The text with every token folded by itself: a URL-like token as it is,
\* the @ at the start of a token kept, every other leetspeak character
\* replaced by its letter.
FoldedByToken(text) ==
  [i \in 1..Len(text) |->
     IF text[i] = " " THEN " "
     ELSE IF UrlLike(TokenAt(text, i)) THEN text[i]
     ELSE IF text[i] = "@" /\ TokenStart(text, i) = i THEN "@"
     ELSE LeetLetter(text[i])]

\* C21: of a comment that the other steps of normalize_text leave alone, the
\* normalized text is the comment with the leetspeak characters outside the
\* URL-like tokens folded to their letters, the @ that leads a token kept.
C21_LeetFoldedOutsideUrls ==
  \A t \in Threads :
    (Took(t, "pipeline") /\ call[t].text \in LeetTexts) =>
      result[t].normalized_text = FoldedByToken(call[t].text)

\* The marks and the alphanumeric characters of a token.
PunctCount(token) == Cardinality({i \in 1..Len(token) : token[i] \in ObfuscationPunct})
AlnumCount(token) == Cardinality({i \in 1..Len(token) : IsAlnum(token[i])})

WithoutPunct(token) == SelectSeq(token, LAMBDA c : c \notin ObfuscationPunct)

\* The text with the marks taken out of every token of five characters or
\* more that holds two marks or more, the marks being at least 40% of the
\* count that against(token) gives; the tokens joined again by one space.
Deobfuscated(text, against(_)) ==
  LET tokens == SplitWs(text)
  IN Strip(CollapseWs(JoinSp(
       [i \in 1..Len(tokens) |->
          IF /\ Len(tokens[i]) >= 5
             /\ PunctCount(tokens[i]) >= 2
             /\ 10 * PunctCount(tokens[i]) >= 4 * against(tokens[i])
          THEN WithoutPunct(tokens[i]) ELSE tokens[i]])))

C29_NormalizeIdempotent ==
  \A t \in Threads :
    (Took(t, "pipeline") /\ call[t].text \in NormalizeTexts) =>
      LET once == result[t].normalized_text
      IN /\ normalize_text(once) = once
         /\ \A i \in 1..Len(once) :
              once[i] \notin ZERO_WIDTH_CHARS \cup DOMAIN CYRILLIC_TO_LATIN

\* ------------------------------------------------------------------------
\* Monotonicity of the score
\* ------------------------------------------------------------------------

\* The weights a further spam signal may have: the weights analyze() gives
\* its signals, and the ends of [0, 1].
SignalWeights ==
  {Zero, Dec(15, 100), Dec(2, 10), Dec(25, 100), Dec(3, 10), Dec(4, 10),
   Dec(45, 100), Dec(5, 10), Dec(55, 100), Dec(6, 10), Dec(65, 100),
   Dec(7, 10), Dec(75, 100), crypto_weight(1), crypto_weight(2), One}

\* The signals of the call of t and one more signal of weight w.
WithSignal(t, w) ==
  frame[Frame(t)].signals \o <<SpamSignal("ENGAGEMENT_BAIT", "Engagement bait", w, <<>>)>>

\* The legitimacy signals and the final score analyze() computes for the
\* comment of t from the spam signals sigs.
LegitimacyWith(t, sigs) ==
  legitimacy_signals_of(call[t].text, call[t].like_count, sigs, base_score_of(sigs))

FinalWith(t, sigs) ==
  final_score_of(base_score_of(sigs), adjustment_of(interpreter, LegitimacyWith(t, sigs)))

\* C30: for the comment, like count and legitimacy patterns of a record,
\* one more spam signal of any weight lowers neither the base score nor the
\* final score.
C30_EvidenceMonotone ==
  \A t \in Threads :
    Took(t, "pipeline") =>
      \A w \in SignalWeights :
        /\ FGe(base_score_of(WithSignal(t, w)), frame[Frame(t)].base_score)
        /\ FGe(FinalWith(t, WithSignal(t, w)), frame[Frame(t)].final_score)

\* A comment of 201 characters with one spam signal and 100 likes, scored
\* below 0.55 with the 'long thoughtful' bonus and the full engagement
\* bonus: a further signal of weight 0.75 moves the first weight to the
\* factor 1/2, takes the length bonus away and caps the engagement bonus.
C30_Witness ==
  \E t \in Threads :
    /\ Took(t, "pipeline")
    /\ call[t].like_count = 100
    /\ Len(frame[Frame(t)].signals) = 1
    /\ ~FGe(frame[Frame(t)].base_score, Dec(55, 100))
    /\ Bonuses(result[t], "Long thoughtful comment") # {}
    /\ \E i \in 1..Len(result[t].legitimacy_signals) :
          result[t].legitimacy_signals[i].bonus = FNeg(Dec(25, 100))
    /\ LET more == LegitimacyWith(t, WithSignal(t, Dec(75, 100)))
       IN /\ \A i \in 1..Len(more) : more[i].signal # "Long thoughtful comment"
          /\ \A i \in 1..Len(more) : more[i].bonus # FNeg(Dec(25, 100))
          /\ \E i \in 1..Len(more) : more[i].bonus = FNeg(Dec(10, 100))

\* ------------------------------------------------------------------------
\* Properties of SettingsManager
\* ------------------------------------------------------------------------

\* C23: when save(settings) has returned True with a non-empty api_key, the
\* load() that follows returns settings with that api_key, whether the
\* keyring is in use or not and whether its calls work or fail.
C23_LoadReturnsSavedKey ==
  (/\ manager.saved.done /\ manager.saved.returned
   /\ manager.saved.settings.api_key # ""
   /\ manager.loaded.done)
    => manager.loaded.settings.api_key = manager.saved.settings.api_key

\* ------------------------------------------------------------------------
\* Properties of fetch_comments()
\* ------------------------------------------------------------------------

\* C24: with max_results = n >= 1, the comments kept are never more than n,
\* no page was requested when n comments were kept already, no page was
\* requested after a response without nextPageToken, and the call has
\* returned when the last response had none.
C24_AtMostMaxResults ==
  LET n == extractor.args.max_results
      responses == extractor.responses
  IN (extractor.pc # "idle" /\ n >= 1) =>
       /\ Len(extractor.comments) <= n
       /\ \A i \in 1..Len(responses) : responses[i].kept_before < n
       /\ \A i \in 1..(Len(responses) - 1) : responses[i].token
       /\ (responses # <<>> /\ ~responses[Len(responses)].token) =>
            extractor.pc = "returned"

\* A call with max_results = 1 has returned one comment after one page of
\* two items that came with a nextPageToken.
C24_Witness ==
  /\ extractor.pc = "returned"
  /\ extractor.args.max_results = 1
  /\ Len(extractor.comments) = 1
  /\ Len(extractor.responses) = 1
  /\ extractor.responses[1].token
  /\ Len(extractor.responses[1].page) = 2
  /\ extractor.comments[1].source = <<1, 1>>

\* The comment that a result entry was made from.
Fetched(entry) == extractor.responses[entry.source[1]].page[entry.source[2]]

Sources(list) == {list[i].source : i \in 1..Len(list)}

\* C25: no fetched item is in both lists or twice in one; every entry of
\* spam_comments is not the creator's when exclude_creator is set, has
\* min_likes likes or more, lies in the date range and holds one of the
\* filter words; and without filter_spam the list spam_comments is empty.
C25_SpamFilterLast ==
  LET comments == extractor.comments
      spam_comments == extractor.spam_comments
      f == extractor.args.filters
  IN /\ Sources(comments) \cap Sources(spam_comments) = {}
     /\ Cardinality(Sources(comments)) = Len(comments)
     /\ Cardinality(Sources(spam_comments)) = Len(spam_comments)
     /\ \A i \in 1..Len(spam_comments) :
          LET comment == Fetched(spam_comments[i])
          IN /\ f.exclude_creator => ~comment.is_creator
             /\ comment.like_count >= f.min_likes
             /\ passes_date_filter(comment.published_at, f.date_from, f.date_to)
             /\ matches_any(comment.text, f.filter_words)
     /\ ~extractor.args.filter_spam => spam_comments = <<>>

\* A call with every filter set has returned a spam comment and a kept
\* comment, and left out a spam comment of the creator.
C25_Witness ==
  /\ extractor.pc = "returned"
  /\ extractor.args.filter_spam
  /\ extractor.args.filters.exclude_creator
  /\ extractor.args.filters.min_likes = 5
  /\ Len(extractor.spam_comments) = 1
  /\ Len(extractor.comments) = 1
  /\ \E p \in 1..Len(extractor.responses) :
       \E i \in 1..Len(extractor.responses[p].page) :
         /\ extractor.responses[p].page[i].text = Chars("xxx")
         /\ <<p, i>> \notin Sources(extractor.comments) \cup Sources(extractor.spam_comments)

\* ------------------------------------------------------------------------
\* Properties of the App window
\* ------------------------------------------------------------------------

\* C26: no step reads or writes all_metadata, all_comments or all_spam
\* without holding _data_lock while a worker is in its loop.
C26_ListsUnderLock ==
  (app.access.by # "none" /\ app.access.looping) => app.access.locked

\* A step of start_fetching() taken during a fetch starts no thread and
\* leaves the three lists as they are.
StartDuringFetchIsIdle ==
  (app.fetch_state.is_fetching /\ app'.handler = "start_fetching") =>
    (/\ app'.workers = app.workers
     /\ app'.all_metadata = app.all_metadata
     /\ app'.all_comments = app.all_comments
     /\ app'.all_spam = app.all_spam)

\* A step that ends is_fetching is _reset_fetch_ui, with no worker in its
\* loop.
FetchEndsByReset ==
  (app.fetch_state.is_fetching /\ ~app'.fetch_state.is_fetching) =>
    (app'.handler = "_reset_fetch_ui" /\ ~SomeLooping)

\* C27: at most one worker thread runs; start_fetching() during a fetch
\* starts no thread and leaves the lists alone; is_fetching is true while a
\* worker runs and becomes false only by _reset_fetch_ui, with no worker in
\* its loop.
C27_OneWorker ==
  /\ [](Cardinality({w \in Workers : Running(w)}) <= 1)
  /\ [](SomeLooping => app.fetch_state.is_fetching)
  /\ [][StartDuringFetchIsIdle /\ FetchEndsByReset]_vars

\* start_fetching() was invoked during a fetch with results in the lists
\* and its worker still in the loop, and changed nothing.
C27_Witness ==
  /\ app.handler = "start_fetching"
  /\ app.access = NoAccess
  /\ app.fetch_state.is_fetching
  /\ SomeLooping
  /\ app.all_metadata # <<>>

\* A step that clears the cancel flag is taken with no worker in its loop.
FlagClearedOutsideLoop ==
  (app.fetch_state.cancel_event /\ ~app'.fetch_state.cancel_event) => ~SomeLooping

\* A step that starts a worker thread leaves the cancel flag clear.
FetchStartsClear ==
  \A w \in Workers :
    (app.workers[w].pc = "none" /\ app'.workers[w].pc # "none") =>
      ~app'.fetch_state.cancel_event

\* C28: after cancellation is requested the worker begins at most one more
\* process_video call; the cancel flag is cleared only when no worker is in
\* its loop; and a worker thread starts with the flag clear.
C28_CancelStopsWorker ==
  /\ [](app.begun <= 1)
  /\ [][FlagClearedOutsideLoop /\ FetchStartsClear]_vars

\* Cancellation came between the test of the flag and the call of
\* process_video: that call was begun, and the worker has left its loop
\* with URLs unprocessed.
C28_Witness ==
  \E w \in Workers :
    /\ app.begun = 1
    /\ app.workers[w].pc = "counts"
    /\ app.workers[w].i + 1 < app.workers[w].total_videos
    /\ app.fetch_state.cancel_event

====
